---- MODULE Spec2Model ----
(***************************************************************************)
(* Model of the artifact test-result parsing and aggregation engine        *)
(* (src/core/artifact_processor.py): the eligibility gate, the four        *)
(* parsers, the meaningfulness filter, the result merger and the           *)
(* orchestrator process_test_files.                                        *)
(*                                                                         *)
(* Conventions                                                             *)
(*  - Python str is a TLA+ string; Optional[str] is a sequence of at most  *)
(*    one string (<<>> is None).                                           *)
(*  - An XML element's attributes are a record holding only the attributes *)
(*    that are present; a JSON object is a record holding only its keys.   *)
(*  - A JSON number is <<n>>, JSON null is <<>>.                           *)
(*  - duration is counted in thousandths of a second.                      *)
(*  - TestSuiteResult objects and their tests lists are mutable Python     *)
(*    objects: they live in the heaps objs and lists and are referred to   *)
(*    by their index.                                                      *)
(***************************************************************************)
EXTENDS Integers, Sequences, FiniteSets, TLC

VARIABLES
    files,            \* process_test_files: the argument, a list of files
    idx,              \* process_test_files: number of files the loop has consumed
    test_results,     \* process_test_files: the accumulator, an ordered dict name -> object
    processed_count,  \* process_test_files: eligible files seen so far
    parse_calls,      \* history: <<file index, parser>> for every parser invocation
    raised_at,        \* history: indices of the files whose processing raised
    log,              \* warnings emitted by process_test_files itself
    pc,               \* control state of the run
    objs,             \* heap of TestSuiteResult objects
    lists,            \* heap of list objects (the tests lists)
    HTML_PARSER_AVAILABLE,  \* module global: whether bs4 could be imported
    args,             \* pure-function runs: the arguments
    ret,              \* pure-function runs: <<>> before the call, <<value>> after
    extracted_files,  \* extract_artifact: the list of paths written so far
    disk              \* extract_artifact: the files on disk, path -> content

vars == <<files, idx, test_results, processed_count, parse_calls, raised_at, log,
          pc, objs, lists, HTML_PARSER_AVAILABLE, args, ret, extracted_files, disk>>

(***************************************************************************)
(* Bounds                                                                  *)
(***************************************************************************)
MaxFiles == 2

(***************************************************************************)
(* Python string helpers                                                   *)
(***************************************************************************)
Char(s, i) == SubSeq(s, i, i)

\* s[i..j], cut to the text that exists (Python slicing)
Slice(s, i, j) ==
    LET lo == IF i < 1 THEN 1 ELSE i
        hi == IF j > Len(s) THEN Len(s) ELSE j
    IN  IF lo > hi THEN "" ELSE SubSeq(s, lo, hi)

Digits == "0123456789"

LeastOf(S) == CHOOSE x \in S : \A y \in S : x <= y

GreatestOf(S) == CHOOSE x \in S : \A y \in S : x >= y

\* 1-based index of the one-character string c in s, 0 when absent
IndexOf(s, c) ==
    LET at == {i \in 1..Len(s) : Char(s, i) = c} IN IF at = {} THEN 0 ELSE LeastOf(at)

\* str.rfind(c) + 1
RFind(s, c) ==
    LET at == {i \in 1..Len(s) : Char(s, i) = c} IN IF at = {} THEN 0 ELSE GreatestOf(at)

\* the lower-case letter of every upper-case ASCII letter
LowerOf ==
    [A |-> "a", B |-> "b", C |-> "c", D |-> "d", E |-> "e", F |-> "f", G |-> "g",
     H |-> "h", I |-> "i", J |-> "j", K |-> "k", L |-> "l", M |-> "m", N |-> "n",
     O |-> "o", P |-> "p", Q |-> "q", R |-> "r", S |-> "s", T |-> "t", U |-> "u",
     V |-> "v", W |-> "w", X |-> "x", Y |-> "y", Z |-> "z"]

LowerChar(c) == IF c \in DOMAIN LowerOf THEN LowerOf[c] ELSE c

RECURSIVE Lower(_)
\* str.lower() on ASCII text
Lower(s) == IF Len(s) = 0 THEN "" ELSE Lower(SubSeq(s, 1, Len(s) - 1)) \o LowerChar(Char(s, Len(s)))

\* pat in s
Contains(s, pat) == \E i \in 1..(Len(s) - Len(pat) + 1) : SubSeq(s, i, i + Len(pat) - 1) = pat

RECURSIVE Strip(_)
\* str.strip(): white space is taken off both ends
Strip(s) ==
    IF Len(s) = 0 THEN ""
    ELSE IF Char(s, 1) \in {" ", "\t", "\n"} THEN Strip(SubSeq(s, 2, Len(s)))
    ELSE IF Char(s, Len(s)) \in {" ", "\t", "\n"} THEN Strip(SubSeq(s, 1, Len(s) - 1))
    ELSE s

\* s.startswith(prefix)
StartsWith(s, prefix) == Len(s) >= Len(prefix) /\ SubSeq(s, 1, Len(prefix)) = prefix

\* s.find(pat) + 1: where the first occurrence of pat starts, 0 when absent
StrFind(s, pat) ==
    LET at == {i \in 1..(Len(s) - Len(pat) + 1) : SubSeq(s, i, i + Len(pat) - 1) = pat}
    IN  IF at = {} THEN 0 ELSE LeastOf(at)

\* s.split(sep)[0]: the text before the first sep, all of s when sep is absent
SplitHead(s, sep) == IF StrFind(s, sep) = 0 THEN s ELSE SubSeq(s, 1, StrFind(s, sep) - 1)

\* s.split(sep, 1)[1], for s containing sep: the text after the first sep
SplitTail(s, sep) == SubSeq(s, StrFind(s, sep) + Len(sep), Len(s))

RECURSIVE Replace(_, _, _)
\* s.replace(c, r) for a one-character c
Replace(s, c, r) ==
    IF Len(s) = 0 THEN ""
    ELSE Replace(SubSeq(s, 1, Len(s) - 1), c, r) \o (IF Char(s, Len(s)) = c THEN r ELSE Char(s, Len(s)))

AllDigits(s) == Len(s) > 0 /\ \A i \in 1..Len(s) : IndexOf(Digits, Char(s, i)) > 0

RECURSIVE DigitsValue(_)
DigitsValue(s) ==
    IF Len(s) = 0 THEN 0
    ELSE 10 * DigitsValue(SubSeq(s, 1, Len(s) - 1)) + (IndexOf(Digits, Char(s, Len(s))) - 1)

\* int(str): [ok |-> FALSE] stands for ValueError
PyInt(s) ==
    LET t == Strip(s)
        signed == Len(t) > 0 /\ Char(t, 1) \in {"-", "+"}
        body == IF signed THEN SubSeq(t, 2, Len(t)) ELSE t
    IN  IF AllDigits(body)
        THEN [ok |-> TRUE, v |-> IF signed /\ Char(t, 1) = "-" THEN 0 - DigitsValue(body) ELSE DigitsValue(body)]
        ELSE [ok |-> FALSE, v |-> 0]

\* the digits of a fraction, as thousandths (at most three digits are kept)
Thousandths(frac) ==
    LET padded == SubSeq(frac \o "000", 1, 3) IN DigitsValue(padded)

\* float(str) for plain decimal text, in thousandths; [ok |-> FALSE] stands for ValueError
PyFloat(s) ==
    LET t == Strip(s)
        dot == IndexOf(t, ".")
        whole == IF dot = 0 THEN t ELSE SubSeq(t, 1, dot - 1)
        frac == IF dot = 0 THEN "" ELSE SubSeq(t, dot + 1, Len(t))
    IN  IF /\ (Len(whole) = 0 \/ AllDigits(whole))
           /\ (Len(frac) = 0 \/ AllDigits(frac))
           /\ Len(whole) + Len(frac) > 0
        THEN [ok |-> TRUE, v |-> 1000 * DigitsValue(whole) + Thousandths(frac)]
        ELSE [ok |-> FALSE, v |-> 0]

(***************************************************************************)
(* pathlib.Path: name, suffix, stem                                        *)
(***************************************************************************)
PathName(path) == SubSeq(path, RFind(path, "/") + 1, Len(path))

PathSuffix(path) ==
    LET name == PathName(path)
        i == RFind(name, ".")
    IN  IF 1 < i /\ i < Len(name) THEN SubSeq(name, i, Len(name)) ELSE ""

PathStem(path) ==
    LET name == PathName(path)
        i == RFind(name, ".")
    IN  IF 1 < i /\ i < Len(name) THEN SubSeq(name, 1, i - 1) ELSE name

(***************************************************************************)
(* Ordered dict: a sequence of [key, val] entries with distinct keys       *)
(***************************************************************************)
DictKeys(d) == {d[i].key : i \in 1..Len(d)}

DictGet(d, k) == d[CHOOSE i \in 1..Len(d) : d[i].key = k].val

\* d[k] = v: an existing key keeps its position
DictSet(d, k, v) ==
    IF k \in DictKeys(d)
    THEN [i \in 1..Len(d) |-> IF d[i].key = k THEN [key |-> k, val |-> v] ELSE d[i]]
    ELSE Append(d, [key |-> k, val |-> v])

(***************************************************************************)
(* Eligibility gate and meaningfulness filter                              *)
(***************************************************************************)
supported_formats == <<".xml", ".json", ".html", ".txt", ".log">>

test_patterns ==
    <<"test", "result", "report", "junit", "pytest", "coverage", "pytr",
      "pytest-report", "test-report", "test_report">>

\* variant: the extension is compared as written
_is_test_result_file_cs(file_path) ==
    LET name == Lower(PathName(file_path))
        suffix == PathSuffix(file_path)
    IN  IF ~(\E i \in 1..Len(supported_formats) : supported_formats[i] = suffix)
        THEN FALSE
        ELSE \E i \in 1..Len(test_patterns) : Contains(name, test_patterns[i])

_is_test_result_file(file_path) ==
    LET name == Lower(PathName(file_path))
        suffix == Lower(PathSuffix(file_path))
    IN  IF ~(\E i \in 1..Len(supported_formats) : supported_formats[i] = suffix)
        THEN FALSE
        ELSE \E i \in 1..Len(test_patterns) : Contains(name, test_patterns[i])

\* variant: every suite counts as meaningful
_has_meaningful_results_always(passed, failed, error) == TRUE

\* variant: the three counts are added up
_has_meaningful_results_sum(passed, failed, error) == passed + failed + error > 0

_has_meaningful_results(passed, failed, error) == passed > 0 \/ failed > 0 \/ error > 0

(***************************************************************************)
(* Suite name resolver.  Every operation on a str is defined for every     *)
(* str, so the except branch (lines 165-167) is never entered.             *)
(***************************************************************************)
\* variant: the test_report rule is tried before the BFT PyTest rule
_extract_suite_name_from_artifact_swapped(artifact_name) ==
    LET clean_name == IF StartsWith(artifact_name, "artifacts_")
                      THEN SubSeq(artifact_name, 11, Len(artifact_name))
                      ELSE artifact_name
        CutAttempt(suite_part) ==
            IF Contains(suite_part, "; JobAttempt=") THEN SplitHead(suite_part, "; JobAttempt=") ELSE suite_part
    IN  IF Contains(clean_name, "PyTest test_report=")
        THEN Strip(CutAttempt(SplitTail(clean_name, "PyTest test_report=")))
        ELSE IF Contains(clean_name, "BFT PyTest ")
        THEN Strip(CutAttempt(SplitTail(clean_name, "BFT PyTest ")))
        ELSE Replace(Replace(Replace(clean_name, " ", "_"), ";", ""), "=", "_")

_extract_suite_name_from_artifact(artifact_name) ==
    LET clean_name == IF StartsWith(artifact_name, "artifacts_")
                      THEN SubSeq(artifact_name, 11, Len(artifact_name))
                      ELSE artifact_name
        \* "if '; JobAttempt=' in suite_part: suite_part = suite_part.split('; JobAttempt=')[0]"
        CutAttempt(suite_part) ==
            IF Contains(suite_part, "; JobAttempt=") THEN SplitHead(suite_part, "; JobAttempt=") ELSE suite_part
        \* "if suite_part.startswith('BFT PyTest '): suite_part = suite_part[11:]"
        CutMarker(suite_part) ==
            IF StartsWith(suite_part, "BFT PyTest ") THEN SubSeq(suite_part, 12, Len(suite_part)) ELSE suite_part
    IN  IF Contains(clean_name, "BFT PyTest ")
        THEN Strip(CutAttempt(SplitTail(clean_name, "BFT PyTest ")))
        ELSE IF Contains(clean_name, "PyTest test_report=")
        THEN Strip(CutMarker(CutAttempt(SplitTail(clean_name, "PyTest test_report="))))
        ELSE Replace(Replace(Replace(clean_name, " ", "_"), ";", ""), "=", "_")

\* whether the call logs "Could not extract suite name from artifact"
ResolverWarns(artifact_name) ==
    LET clean_name == IF StartsWith(artifact_name, "artifacts_")
                      THEN SubSeq(artifact_name, 11, Len(artifact_name))
                      ELSE artifact_name
    IN  ~Contains(clean_name, "BFT PyTest ") /\ ~Contains(clean_name, "PyTest test_report=")

(***************************************************************************)
(* pathlib.Path for extract_artifact.  A path is kept as the string        *)
(* pathlib prints: components joined by "/", "." components and empty      *)
(* components dropped, ".." components kept.                               *)
(***************************************************************************)
RECURSIVE Parts(_)
\* the components of a path string
Parts(s) ==
    IF Len(s) = 0 THEN <<>>
    ELSE LET i == IndexOf(s, "/")
             head == IF i = 0 THEN s ELSE SubSeq(s, 1, i - 1)
             rest == IF i = 0 THEN "" ELSE SubSeq(s, i + 1, Len(s))
         IN  (IF head \in {"", "."} THEN <<>> ELSE <<head>>) \o Parts(rest)

RECURSIVE JoinParts(_)
JoinParts(parts) ==
    IF Len(parts) = 0 THEN ""
    ELSE IF Len(parts) = 1 THEN parts[1]
    ELSE parts[1] \o "/" \o JoinParts(Tail(parts))

\* Path(s) for an absolute or relative s
PathOf(s) == (IF StartsWith(s, "/") THEN "/" ELSE "") \o JoinParts(Parts(s))

\* base / s: an absolute s replaces base
PathJoin(base, s) ==
    IF StartsWith(s, "/") THEN PathOf(s)
    ELSE IF Len(Parts(s)) = 0 THEN base
    ELSE IF base = "/" THEN "/" \o JoinParts(Parts(s))
    ELSE base \o "/" \o JoinParts(Parts(s))

RECURSIVE Resolved(_)
\* the components the file system reaches for absolute path components:
\* ".." steps to the parent, and the parent of the root is the root
Resolved(parts) ==
    IF Len(parts) = 0 THEN <<>>
    ELSE LET before == Resolved(SubSeq(parts, 1, Len(parts) - 1))
             last == parts[Len(parts)]
         IN  IF last # ".." THEN Append(before, last)
             ELSE IF Len(before) = 0 THEN <<>>
             ELSE SubSeq(before, 1, Len(before) - 1)

\* the file an absolute path names on disk
OnDisk(path) == "/" \o JoinParts(Resolved(Parts(path)))

\* path.parent
ParentOf(path) ==
    LET parts == Parts(path)
    IN  IF Len(parts) = 0 THEN path
        ELSE (IF StartsWith(path, "/") THEN "/" ELSE "") \o JoinParts(SubSeq(parts, 1, Len(parts) - 1))

\* ZipInfo.is_dir(): the entry's name ends with a slash
is_dir(file_info) == Len(file_info.filename) > 0 /\ Char(file_info.filename, Len(file_info.filename)) = "/"

(***************************************************************************)
(* extract_artifact.  An archive is [kind, entries]: kind "notzip" makes   *)
(* zipfile.ZipFile raise BadZipFile; an entry is [filename, content,       *)
(* fault], fault being                                                     *)
(*   "none"    the entry reads back as content                             *)
(*   "header"  zip_file.open raises BadZipFile (bad local header)          *)
(*   "crc"     source.read() raises BadZipFile (bad CRC-32)                *)
(*   "stream"  source.read() raises zlib.error (broken deflate stream)     *)
(* disk is an ordered dict from the resolved path of a regular file to its *)
(* content; the directories are the ancestors of suite_dir and of the      *)
(* files.                                                                  *)
(***************************************************************************)
\* suite_dir = output_dir / f"suite_{suite_name}"
SuiteDirOf(artifact_name, output_dir) ==
    PathJoin(output_dir, "suite_" \o _extract_suite_name_from_artifact(artifact_name))

\* extracted_path = suite_dir / file_info.filename
ExtractedPath(suite_dir, file_info) == PathJoin(suite_dir, file_info.filename)

\* whether s names a strict ancestor directory of the file f (resolved paths)
IsAncestor(s, f) ==
    LET a == Parts(s)
        b == Parts(f)
    IN  Len(a) < Len(b) /\ SubSeq(b, 1, Len(a)) = a

\* extracted_path.parent.mkdir(parents=True, exist_ok=True) raises OSError
\* when a component of the parent is a regular file
MkdirRaises(d, extracted_path) ==
    \E k \in DictKeys(d) : k = OnDisk(ParentOf(extracted_path)) \/ IsAncestor(k, OnDisk(extracted_path))

\* open(extracted_path, 'wb') raises OSError when the path is a directory
OpenRaises(d, suite_dir, extracted_path) ==
    \/ OnDisk(extracted_path) = OnDisk(suite_dir)
    \/ IsAncestor(OnDisk(extracted_path), OnDisk(suite_dir))
    \/ \E k \in DictKeys(d) : IsAncestor(OnDisk(extracted_path), k)

(***************************************************************************)
(* Data model                                                              *)
(***************************************************************************)
None == <<>>

Some(v) == <<v>>

\* dict.get(key, default) on a record that holds only the present keys
Get(rec, key, default) == IF key \in DOMAIN rec THEN rec[key] ELSE default

\* TestResult(name, status, duration, suite), the two messages unset
TestResult(name, status, duration, suite) ==
    [name |-> name, status |-> status, duration |-> duration,
     failure_message |-> None, error_message |-> None, suite |-> suite]

\* TestSuiteResult(name): all counters 0, no tests.  nonnum names the
\* fields that hold None instead of a number (their number is kept 0).
TestSuiteResult(name) ==
    [name |-> name, total |-> 0, passed |-> 0, failed |-> 0, skipped |-> 0,
     errors |-> 0, duration |-> 0, tests |-> <<>>, nonnum |-> {}]

\* what a parser hands back: it either raised, or returned an ordered dict
Raised == [raised |-> TRUE, results |-> <<>>]

Returned(d) == [raised |-> FALSE, results |-> d]

(***************************************************************************)
(* xml.etree.ElementTree: an element is [tag, attrib, text, children]      *)
(***************************************************************************)
FindAll(elem, tag) == SelectSeq(elem.children, LAMBDA c : c.tag = tag)

\* Element.find(tag): <<>> is None, <<e>> the first child with that tag
Find(elem, tag) == IF Len(FindAll(elem, tag)) = 0 THEN None ELSE Some(FindAll(elem, tag)[1])

\* elem.get('message', elem.text)
MessageOf(elem) == IF "message" \in DOMAIN elem.attrib THEN Some(elem.attrib.message) ELSE elem.text

\* int(elem.get(key, 0))
IntAttr(elem, key) ==
    IF key \in DOMAIN elem.attrib THEN PyInt(elem.attrib[key]) ELSE [ok |-> TRUE, v |-> 0]

\* float(elem.get(key, 0))
FloatAttr(elem, key) ==
    IF key \in DOMAIN elem.attrib THEN PyFloat(elem.attrib[key]) ELSE [ok |-> TRUE, v |-> 0]

\* variant: the error child is looked at before the failure child
XmlTestCase_errorfirst(testcase, suite_name) ==
    LET test == TestResult(Get(testcase.attrib, "name", "Unknown"), "passed",
                           FloatAttr(testcase, "time").v, suite_name)
        failure == Find(testcase, "failure")
        error == Find(testcase, "error")
        skipped == Find(testcase, "skipped")
    IN  IF error # None
        THEN [test EXCEPT !.status = "error", !.error_message = MessageOf(error[1])]
        ELSE IF failure # None
        THEN [test EXCEPT !.status = "failed", !.failure_message = MessageOf(failure[1])]
        ELSE IF skipped # None
        THEN [test EXCEPT !.status = "skipped"]
        ELSE test

\* one iteration of the testcase loop: the TestResult appended
XmlTestCase(testcase, suite_name) ==
    LET test == TestResult(Get(testcase.attrib, "name", "Unknown"), "passed",
                           FloatAttr(testcase, "time").v, suite_name)
        failure == Find(testcase, "failure")
        error == Find(testcase, "error")
        skipped == Find(testcase, "skipped")
    IN  IF failure # None
        THEN [test EXCEPT !.status = "failed", !.failure_message = MessageOf(failure[1])]
        ELSE IF error # None
        THEN [test EXCEPT !.status = "error", !.error_message = MessageOf(error[1])]
        ELSE IF skipped # None
        THEN [test EXCEPT !.status = "skipped"]
        ELSE test

\* variant: the filter is not consulted
XmlSuite_unfiltered(suite_elem, file_path) ==
    LET suite_name == Get(suite_elem.attrib, "name", PathStem(file_path))
        total == IntAttr(suite_elem, "tests")
        failed == IntAttr(suite_elem, "failures")
        errors == IntAttr(suite_elem, "errors")
        skipped == IntAttr(suite_elem, "skipped")
        duration == FloatAttr(suite_elem, "time")
        passed == total.v - failed.v - errors.v - skipped.v
        cases == FindAll(suite_elem, "testcase")
        head_ok == total.ok /\ failed.ok /\ errors.ok /\ skipped.ok /\ duration.ok
        meaningful == TRUE
    IN  IF ~head_ok THEN [raised |-> TRUE, included |-> FALSE, rec |-> TestSuiteResult(suite_name)]
        ELSE IF ~meaningful THEN [raised |-> FALSE, included |-> FALSE, rec |-> TestSuiteResult(suite_name)]
        ELSE IF \E i \in 1..Len(cases) : ~FloatAttr(cases[i], "time").ok
        THEN [raised |-> TRUE, included |-> FALSE, rec |-> TestSuiteResult(suite_name)]
        ELSE [raised |-> FALSE, included |-> TRUE,
              rec |-> [name |-> suite_name, total |-> total.v, passed |-> passed,
                       failed |-> failed.v, skipped |-> skipped.v, errors |-> errors.v,
                       duration |-> duration.v,
                       tests |-> [i \in 1..Len(cases) |-> XmlTestCase(cases[i], suite_name)],
                       nonnum |-> {}]]

\* variant: the record is named after the file
XmlSuite_stemname(suite_elem, file_path) ==
    LET suite_name == Get(suite_elem.attrib, "name", PathStem(file_path))
        total == IntAttr(suite_elem, "tests")
        failed == IntAttr(suite_elem, "failures")
        errors == IntAttr(suite_elem, "errors")
        skipped == IntAttr(suite_elem, "skipped")
        duration == FloatAttr(suite_elem, "time")
        passed == total.v - failed.v - errors.v - skipped.v
        cases == FindAll(suite_elem, "testcase")
        head_ok == total.ok /\ failed.ok /\ errors.ok /\ skipped.ok /\ duration.ok
        meaningful == _has_meaningful_results(passed, failed.v, errors.v)
    IN  IF ~head_ok THEN [raised |-> TRUE, included |-> FALSE, rec |-> TestSuiteResult(suite_name)]
        ELSE IF ~meaningful THEN [raised |-> FALSE, included |-> FALSE, rec |-> TestSuiteResult(suite_name)]
        ELSE IF \E i \in 1..Len(cases) : ~FloatAttr(cases[i], "time").ok
        THEN [raised |-> TRUE, included |-> FALSE, rec |-> TestSuiteResult(suite_name)]
        ELSE [raised |-> FALSE, included |-> TRUE,
              rec |-> [name |-> PathStem(file_path), total |-> total.v, passed |-> passed,
                       failed |-> failed.v, skipped |-> skipped.v, errors |-> errors.v,
                       duration |-> duration.v,
                       tests |-> [i \in 1..Len(cases) |-> XmlTestCase(cases[i], suite_name)],
                       nonnum |-> {}]]

\* variant: a negative passed is raised to 0
XmlSuite_clamped(suite_elem, file_path) ==
    LET suite_name == Get(suite_elem.attrib, "name", PathStem(file_path))
        total == IntAttr(suite_elem, "tests")
        failed == IntAttr(suite_elem, "failures")
        errors == IntAttr(suite_elem, "errors")
        skipped == IntAttr(suite_elem, "skipped")
        duration == FloatAttr(suite_elem, "time")
        passed == IF total.v - failed.v - errors.v - skipped.v < 0 THEN 0
                  ELSE total.v - failed.v - errors.v - skipped.v
        cases == FindAll(suite_elem, "testcase")
        head_ok == total.ok /\ failed.ok /\ errors.ok /\ skipped.ok /\ duration.ok
        meaningful == _has_meaningful_results(passed, failed.v, errors.v)
    IN  IF ~head_ok THEN [raised |-> TRUE, included |-> FALSE, rec |-> TestSuiteResult(suite_name)]
        ELSE IF ~meaningful THEN [raised |-> FALSE, included |-> FALSE, rec |-> TestSuiteResult(suite_name)]
        ELSE IF \E i \in 1..Len(cases) : ~FloatAttr(cases[i], "time").ok
        THEN [raised |-> TRUE, included |-> FALSE, rec |-> TestSuiteResult(suite_name)]
        ELSE [raised |-> FALSE, included |-> TRUE,
              rec |-> [name |-> suite_name, total |-> total.v, passed |-> passed,
                       failed |-> failed.v, skipped |-> skipped.v, errors |-> errors.v,
                       duration |-> duration.v,
                       tests |-> [i \in 1..Len(cases) |-> XmlTestCase(cases[i], suite_name)],
                       nonnum |-> {}]]

\* one iteration of the suite loop: raised (ValueError from int()/float()),
\* or excluded by the filter, or the record stored in results
XmlSuite(suite_elem, file_path) ==
    LET suite_name == Get(suite_elem.attrib, "name", PathStem(file_path))
        total == IntAttr(suite_elem, "tests")
        failed == IntAttr(suite_elem, "failures")
        errors == IntAttr(suite_elem, "errors")
        skipped == IntAttr(suite_elem, "skipped")
        duration == FloatAttr(suite_elem, "time")
        passed == total.v - failed.v - errors.v - skipped.v
        cases == FindAll(suite_elem, "testcase")
        head_ok == total.ok /\ failed.ok /\ errors.ok /\ skipped.ok /\ duration.ok
        meaningful == _has_meaningful_results(passed, failed.v, errors.v)
    IN  IF ~head_ok THEN [raised |-> TRUE, included |-> FALSE, rec |-> TestSuiteResult(suite_name)]
        ELSE IF ~meaningful THEN [raised |-> FALSE, included |-> FALSE, rec |-> TestSuiteResult(suite_name)]
        ELSE IF \E i \in 1..Len(cases) : ~FloatAttr(cases[i], "time").ok
        THEN [raised |-> TRUE, included |-> FALSE, rec |-> TestSuiteResult(suite_name)]
        ELSE [raised |-> FALSE, included |-> TRUE,
              rec |-> [name |-> suite_name, total |-> total.v, passed |-> passed,
                       failed |-> failed.v, skipped |-> skipped.v, errors |-> errors.v,
                       duration |-> duration.v,
                       tests |-> [i \in 1..Len(cases) |-> XmlTestCase(cases[i], suite_name)],
                       nonnum |-> {}]]

RECURSIVE XmlSuites(_, _, _)
\* the suite loop over suites[1..n]; results is the dict built so far
XmlSuites(suites, n, file_path) ==
    IF n = 0 THEN Returned(<<>>)
    ELSE LET before == XmlSuites(suites, n - 1, file_path)
             Store(this) ==
                 IF before.raised \/ this.raised THEN Raised
                 ELSE IF ~this.included THEN before
                 ELSE Returned(DictSet(before.results, this.rec.name, this.rec))
         IN  Store(XmlSuite(suites[n], file_path))

\* "suites": the children of a testsuites root, or the root itself
SuiteElements(root) == IF root.tag = "testsuites" THEN FindAll(root, "testsuite") ELSE <<root>>

\* variant: of elements with the same name the first one stays
_parse_junit_xml_firstwins(file_path, doc) ==
    IF ~doc.wellformed THEN Returned(<<>>)
    ELSE LET suites == SuiteElements(doc.root)
             reversed == [i \in 1..Len(suites) |-> suites[Len(suites) + 1 - i]]
         IN  XmlSuites(reversed, Len(reversed), file_path)

\* variant: ParseError is not caught
_parse_junit_xml_propagating(file_path, doc) ==
    IF ~doc.wellformed THEN Raised
    ELSE XmlSuites(SuiteElements(doc.root), Len(SuiteElements(doc.root)), file_path)

\* doc.wellformed = FALSE: ET.parse raises ParseError, which is caught here
_parse_junit_xml(file_path, doc) ==
    IF ~doc.wellformed THEN Returned(<<>>)
    ELSE XmlSuites(SuiteElements(doc.root), Len(SuiteElements(doc.root)), file_path)

(***************************************************************************)
(* JSON parser.  doc.kind: "malformed" (json.load raises JSONDecodeError), *)
(* "undecodable" (the bytes are not UTF-8: reading raises                  *)
(* UnicodeDecodeError), "scalar" (a JSON number), "array", or "object"     *)
(* with doc.data                                                           *)
(***************************************************************************)
\* the value under "tests": a JSON array of objects, or a value of another type
JArray(items) == [type |-> "array", items |-> items]

JOther(type) == [type |-> type, items |-> <<>>]

\* the number a JSON value contributes to arithmetic; None contributes no number
NumOf(jv) == IF jv = None THEN 0 ELSE jv[1]

\* one iteration of the tests loop: the TestResult appended
JsonTest(test_data, suite_name) ==
    LET test == TestResult(Get(test_data, "nodeid", "Unknown"),
                           Lower(Get(test_data, "outcome", "unknown")),
                           Get(test_data, "duration", 0), suite_name)
    IN  IF "call" \in DOMAIN test_data /\ "longrepr" \in DOMAIN test_data.call /\ test.status = "failed"
        THEN [test EXCEPT !.failure_message = Some(test_data.call.longrepr)]
        ELSE test

CountStatus(tests, status) == Cardinality({i \in 1..Len(tests) : tests[i].status = status})

\* passed > 0 or failed > 0 or error > 0 on JSON values: comparing None with 0
\* raises TypeError, unless an earlier operand already decided the result
MeaningfulRaises(passed, failed, error) ==
    \/ passed = None
    \/ passed[1] <= 0 /\ failed = None
    \/ passed[1] <= 0 /\ failed # None /\ failed[1] <= 0 /\ error = None

\* variant: errors counts the tests whose status is "error"
JsonTestsShape_errorstatus(file_path, data) ==
    LET suite_name == PathStem(file_path)
        tests == [i \in 1..Len(data.tests.items) |-> JsonTest(data.tests.items[i], suite_name)]
        passed == CountStatus(tests, "passed")
        failed == CountStatus(tests, "failed")
        skipped == CountStatus(tests, "skipped")
        errors == CountStatus(tests, "error")
        duration == Get(data, "duration", Some(0))
        suite_result ==
            [name |-> suite_name, total |-> Len(tests), passed |-> passed, failed |-> failed,
             skipped |-> skipped, errors |-> errors, duration |-> NumOf(duration),
             tests |-> tests, nonnum |-> IF duration = None THEN {"duration"} ELSE {}]
    IN  IF _has_meaningful_results(passed, failed, errors)
        THEN Returned(<<[key |-> suite_name, val |-> suite_result]>>)
        ELSE Returned(<<>>)

\* the tests-array shape (lines 324-359): errors is what "else: errors += 1" counts
JsonTestsShape(file_path, data) ==
    LET suite_name == PathStem(file_path)
        tests == [i \in 1..Len(data.tests.items) |-> JsonTest(data.tests.items[i], suite_name)]
        passed == CountStatus(tests, "passed")
        failed == CountStatus(tests, "failed")
        skipped == CountStatus(tests, "skipped")
        errors == Len(tests) - passed - failed - skipped
        duration == Get(data, "duration", Some(0))
        suite_result ==
            [name |-> suite_name, total |-> Len(tests), passed |-> passed, failed |-> failed,
             skipped |-> skipped, errors |-> errors, duration |-> NumOf(duration),
             tests |-> tests, nonnum |-> IF duration = None THEN {"duration"} ELSE {}]
    IN  IF _has_meaningful_results(passed, failed, errors)
        THEN Returned(<<[key |-> suite_name, val |-> suite_result]>>)
        ELSE Returned(<<>>)

\* variant: total is recomputed from the four counters
JsonSummaryShape_recomputed(file_path, data) ==
    LET summary == data.summary
        suite_name == PathStem(file_path)
        total == Get(summary, "total", Some(0))
        passed == Get(summary, "passed", Some(0))
        failed == Get(summary, "failed", Some(0))
        skipped == Get(summary, "skipped", Some(0))
        errors == Get(summary, "error", Some(0))
        duration == Get(data, "duration", Some(0))
        suite_result ==
            [name |-> suite_name, total |-> NumOf(passed) + NumOf(failed) + NumOf(skipped) + NumOf(errors),
             passed |-> NumOf(passed),
             failed |-> NumOf(failed), skipped |-> NumOf(skipped), errors |-> NumOf(errors),
             duration |-> NumOf(duration), tests |-> <<>>,
             nonnum |-> {f \in {"total", "passed", "failed", "skipped", "errors", "duration"} :
                            \/ f = "total" /\ total = None
                            \/ f = "passed" /\ passed = None
                            \/ f = "failed" /\ failed = None
                            \/ f = "skipped" /\ skipped = None
                            \/ f = "errors" /\ errors = None
                            \/ f = "duration" /\ duration = None}]
    IN  IF MeaningfulRaises(passed, failed, errors) THEN Raised
        ELSE IF _has_meaningful_results(NumOf(passed), NumOf(failed), NumOf(errors))
        THEN Returned(<<[key |-> suite_name, val |-> suite_result]>>)
        ELSE Returned(<<>>)

\* the summary shape (lines 361-379)
JsonSummaryShape(file_path, data) ==
    LET summary == data.summary
        suite_name == PathStem(file_path)
        total == Get(summary, "total", Some(0))
        passed == Get(summary, "passed", Some(0))
        failed == Get(summary, "failed", Some(0))
        skipped == Get(summary, "skipped", Some(0))
        errors == Get(summary, "error", Some(0))
        duration == Get(data, "duration", Some(0))
        suite_result ==
            [name |-> suite_name, total |-> NumOf(total), passed |-> NumOf(passed),
             failed |-> NumOf(failed), skipped |-> NumOf(skipped), errors |-> NumOf(errors),
             duration |-> NumOf(duration), tests |-> <<>>,
             nonnum |-> {f \in {"total", "passed", "failed", "skipped", "errors", "duration"} :
                            \/ f = "total" /\ total = None
                            \/ f = "passed" /\ passed = None
                            \/ f = "failed" /\ failed = None
                            \/ f = "skipped" /\ skipped = None
                            \/ f = "errors" /\ errors = None
                            \/ f = "duration" /\ duration = None}]
    IN  IF MeaningfulRaises(passed, failed, errors) THEN Raised
        ELSE IF _has_meaningful_results(NumOf(passed), NumOf(failed), NumOf(errors))
        THEN Returned(<<[key |-> suite_name, val |-> suite_result]>>)
        ELSE Returned(<<>>)

_parse_json_report(file_path, doc) ==
    IF doc.kind = "malformed" THEN Returned(<<>>)
    ELSE IF doc.kind \in {"undecodable", "scalar"} THEN Raised
    ELSE IF doc.kind = "array" THEN Returned(<<>>)
    ELSE IF "tests" \in DOMAIN doc.data /\ doc.data.tests.type = "array"
    THEN JsonTestsShape(file_path, doc.data)
    ELSE IF "summary" \in DOMAIN doc.data THEN JsonSummaryShape(file_path, doc.data)
    ELSE Returned(<<>>)

(***************************************************************************)
(* Regular expressions used by the text and the HTML parser                *)
(***************************************************************************)
IsDigit(s, i) == i >= 1 /\ i <= Len(s) /\ IndexOf(Digits, Char(s, i)) > 0

IsSpace(s, i) == i >= 1 /\ i <= Len(s) /\ Char(s, i) \in {" ", "\n", "\t"}

\* last index of the run of digits that starts at i
DigitRunEnd(s, i) == LeastOf({j \in i..Len(s) : ~IsDigit(s, j + 1)})

\* last index of the run of white space that starts at i
SpaceRunEnd(s, i) == LeastOf({j \in i..Len(s) : ~IsSpace(s, j + 1)})

\* r'(\d+) word' matches at i
CountAt(s, i, word) ==
    /\ IsDigit(s, i)
    /\ Slice(s, DigitRunEnd(s, i) + 1, DigitRunEnd(s, i) + 1 + Len(word)) = " " \o word

\* re.search(r'(\d+) word', s): None, or the int of group 1 of the leftmost match
SearchCount(s, word) ==
    LET at == {i \in 1..Len(s) : CountAt(s, i, word)}
    IN  IF at = {} THEN None
        ELSE Some(DigitsValue(Slice(s, LeastOf(at), DigitRunEnd(s, LeastOf(at)))))

\* r'(\d+)\s+word' with re.IGNORECASE matches at i
CountAtI(s, i, word) ==
    /\ IsDigit(s, i)
    /\ IsSpace(s, DigitRunEnd(s, i) + 1)
    /\ LET e == SpaceRunEnd(s, DigitRunEnd(s, i) + 1)
       IN  Lower(Slice(s, e + 1, e + Len(word))) = word

SearchCountI(s, word) ==
    LET at == {i \in 1..Len(s) : CountAtI(s, i, word)}
    IN  IF at = {} THEN None
        ELSE Some(DigitsValue(Slice(s, LeastOf(at), DigitRunEnd(s, LeastOf(at)))))

\* r'FAILED (.+?) -' matches at i with group 1 = s[i+7..e]
FailedAt(s, i, e) ==
    /\ Slice(s, i, i + 6) = "FAILED "
    /\ e >= i + 7
    /\ Slice(s, e + 1, e + 2) = " -"
    /\ \A k \in (i + 7)..e : Char(s, k) # "\n"

FailedMatches(s, i) == Slice(s, i, i + 6) = "FAILED " /\ \E e \in i..Len(s) : FailedAt(s, i, e)

RECURSIVE FindAllFailed(_, _)
\* re.findall(r'FAILED (.+?) -', s[pos:]): the names, leftmost first, not overlapping
FindAllFailed(s, pos) ==
    LET at == {i \in pos..Len(s) : FailedMatches(s, i)}
    IN  IF at = {} THEN <<>>
        ELSE LET i == LeastOf(at)
                 e == LeastOf({e \in i..Len(s) : FailedAt(s, i, e)})
             IN  <<Slice(s, i + 7, e)>> \o FindAllFailed(s, e + 3)

(***************************************************************************)
(* Text / log parser                                                       *)
(***************************************************************************)
\* variant: the Meaningfulness Filter is applied as in the other parsers
_parse_text_report_filtered(file_path, doc) ==
    LET content == doc.content
        suite_name == PathStem(file_path)
        failed_tests == FindAllFailed(content, 1)
        tests == [i \in 1..Len(failed_tests) |-> TestResult(failed_tests[i], "failed", 0, suite_name)]
        passed == NumOf(SearchCount(content, "passed"))
        failed == NumOf(SearchCount(content, "failed"))
        skipped == NumOf(SearchCount(content, "skipped"))
        errors == NumOf(SearchCount(content, "error"))
        total == passed + failed + skipped + errors
        suite_result ==
            [name |-> suite_name, total |-> total, passed |-> passed, failed |-> failed,
             skipped |-> skipped, errors |-> errors, duration |-> 0, tests |-> tests, nonnum |-> {}]
    IN  IF total > 0 /\ _has_meaningful_results(passed, failed, errors)
        THEN Returned(<<[key |-> suite_name, val |-> suite_result]>>)
        ELSE Returned(<<>>)

\* lines 493-547; no exception arises from a document that was read
_parse_text_report(file_path, doc) ==
    LET content == doc.content
        suite_name == PathStem(file_path)
        failed_tests == FindAllFailed(content, 1)
        tests == [i \in 1..Len(failed_tests) |-> TestResult(failed_tests[i], "failed", 0, suite_name)]
        passed == NumOf(SearchCount(content, "passed"))
        failed == NumOf(SearchCount(content, "failed"))
        skipped == NumOf(SearchCount(content, "skipped"))
        errors == NumOf(SearchCount(content, "error"))
        total == passed + failed + skipped + errors
        suite_result ==
            [name |-> suite_name, total |-> total, passed |-> passed, failed |-> failed,
             skipped |-> skipped, errors |-> errors, duration |-> 0, tests |-> tests, nonnum |-> {}]
    IN  IF total > 0 THEN Returned(<<[key |-> suite_name, val |-> suite_result]>>)
        ELSE Returned(<<>>)

(***************************************************************************)
(* HTML parser.  The document is given by what the parser reads from it:   *)
(*   summary_table  None, or Some(rows): the tr rows of the table with id  *)
(*                  or class results-table, each a sequence of cell texts  *)
(*   tbody          None, or Some(rows): the tr rows of the first tbody,   *)
(*                  each None or Some(text of its td.col-result cell)      *)
(*   content        the raw text, read by the regex fallback               *)
(*   table_rows     the number of matches of test_row_pattern in content   *)
(***************************************************************************)
RECURSIVE HtmlSummaryRows(_, _, _)
\* the loop over the summary table's rows[1..n], starting from suite_result
HtmlSummaryRows(rows, n, suite_result) ==
    IF n = 0 THEN suite_result
    ELSE LET before == HtmlSummaryRows(rows, n - 1, suite_result)
             cells == rows[n]
         IN  IF Len(cells) < 2 THEN before
             ELSE LET key == Lower(cells[1])
                      count == PyInt(cells[2])
                  IN  IF ~count.ok THEN before
                      ELSE IF Contains(key, "passed") \/ Contains(key, "pass")
                      THEN [before EXCEPT !.passed = count.v]
                      ELSE IF Contains(key, "failed") \/ Contains(key, "fail")
                      THEN [before EXCEPT !.failed = count.v]
                      ELSE IF Contains(key, "skipped") \/ Contains(key, "skip")
                      THEN [before EXCEPT !.skipped = count.v]
                      ELSE IF Contains(key, "error")
                      THEN [before EXCEPT !.errors = count.v]
                      ELSE before

RECURSIVE HtmlTestRows(_, _, _)
\* the loop over the tbody's test_rows[1..n], starting from suite_result
HtmlTestRows(test_rows, n, suite_result) ==
    IF n = 0 THEN suite_result
    ELSE LET before == HtmlTestRows(test_rows, n - 1, suite_result)
             result_cell == test_rows[n]
         IN  IF result_cell = None THEN before
             ELSE LET result_text == Lower(result_cell[1])
                  IN  IF Contains(result_text, "passed") THEN [before EXCEPT !.passed = @ + 1]
                      ELSE IF Contains(result_text, "failed") THEN [before EXCEPT !.failed = @ + 1]
                      ELSE IF Contains(result_text, "skipped") THEN [before EXCEPT !.skipped = @ + 1]
                      ELSE IF Contains(result_text, "error") THEN [before EXCEPT !.errors = @ + 1]
                      ELSE before

\* the branch taken when bs4 is available
HtmlMarkupPath(doc, suite_result) ==
    LET s1 == IF doc.summary_table = None THEN suite_result
              ELSE HtmlSummaryRows(doc.summary_table[1], Len(doc.summary_table[1]), suite_result)
        Rows(test_rows, s2) ==
            IF s2.total > 0 /\ (s2.passed + s2.failed + s2.skipped) = 0
            THEN HtmlTestRows(test_rows, Len(test_rows), s2)
            ELSE s2
    IN  IF doc.tbody = None THEN s1
        ELSE Rows(doc.tbody[1], [s1 EXCEPT !.total = Len(doc.tbody[1])])

\* the regex fallback
HtmlRegexPath(doc, suite_result) ==
    LET passed_match == SearchCountI(doc.content, "passed")
        failed_match == SearchCountI(doc.content, "failed")
        skipped_match == SearchCountI(doc.content, "skipped")
        error_match == SearchCountI(doc.content, "error")
    IN  [suite_result EXCEPT
            !.passed = IF passed_match # None THEN passed_match[1] ELSE @,
            !.failed = IF failed_match # None THEN failed_match[1] ELSE @,
            !.skipped = IF skipped_match # None THEN skipped_match[1] ELSE @,
            !.errors = IF error_match # None THEN error_match[1] ELSE @,
            !.total = IF doc.table_rows > 0 THEN doc.table_rows ELSE @]

_parse_html_report(file_path, doc, parser_available) ==
    LET suite_name == PathStem(file_path)
        \* the final filter and "if suite_result.total > 0"
        Store(suite_result) ==
            IF ~_has_meaningful_results(suite_result.passed, suite_result.failed, suite_result.errors)
            THEN Returned(<<>>)
            ELSE IF suite_result.total > 0
            THEN Returned(<<[key |-> suite_name, val |-> suite_result]>>)
            ELSE Returned(<<>>)
        \* "if suite_result.total == 0": total is the sum of the four counts
        Total(s1) ==
            Store(IF s1.total = 0
                  THEN [s1 EXCEPT !.total = s1.passed + s1.failed + s1.skipped + s1.errors]
                  ELSE s1)
    IN  Total(IF parser_available
              THEN HtmlMarkupPath(doc, TestSuiteResult(suite_name))
              ELSE HtmlRegexPath(doc, TestSuiteResult(suite_name)))

(***************************************************************************)
(* The heap: h = [objs, lists].  A TestSuiteResult object holds the index  *)
(* of its tests list; a reference is an index into objs.                   *)
(***************************************************************************)
\* the value a reference stands for, with its tests spelled out
Deref(h, ref) == [h.objs[ref] EXCEPT !.tests = h.lists[h.objs[ref].tests]]

\* a parser creating a TestSuiteResult (and, in __post_init__, its tests list)
Alloc(h, rec) ==
    [h   |-> [objs  |-> Append(h.objs, [rec EXCEPT !.tests = Len(h.lists) + 1]),
              lists |-> Append(h.lists, rec.tests)],
     ref |-> Len(h.objs) + 1]

RECURSIVE AllocAll(_, _, _)
\* the objects of a parser's dict results[1..n]: [h, d], d being the dict of references
AllocAll(h, results, n) ==
    IF n = 0 THEN [h |-> h, d |-> <<>>]
    ELSE LET before == AllocAll(h, results, n - 1)
             a == Alloc(before.h, results[n].val)
         IN  [h |-> a.h, d |-> Append(before.d, [key |-> results[n].key, val |-> a.ref])]

(***************************************************************************)
(* Result merger                                                           *)
(***************************************************************************)
\* the fields of "merged" once all assignments are done
MergedRecord(h, existing, new) ==
    LET e == h.objs[existing]
        n == h.objs[new]
    IN  [name |-> e.name,
         total |-> e.total + n.total,
         passed |-> e.passed + n.passed,
         failed |-> e.failed + n.failed,
         skipped |-> e.skipped + n.skipped,
         errors |-> e.errors + n.errors,
         duration |-> e.duration + n.duration,
         tests |-> h.lists[e.tests] \o h.lists[n.tests],
         nonnum |-> {}]

\* adding None to anything raises TypeError
MergeRaises(h, existing, new) == h.objs[existing].nonnum \cup h.objs[new].nonnum # {}

Max0(x) == IF x < 0 THEN 0 ELSE x

RECURSIVE DedupByName(_)
DedupByName(tests) ==
    IF Len(tests) = 0 THEN <<>>
    ELSE LET front == DedupByName(SubSeq(tests, 1, Len(tests) - 1))
             last == tests[Len(tests)]
         IN  IF \E i \in 1..Len(front) : front[i].name = last.name THEN front ELSE Append(front, last)

\* variant: negative sums are clamped to 0 and the name is taken from new
_merge_suite_results_clamped(h, existing, new) ==
    LET m == MergedRecord(h, existing, new)
        merged == [m EXCEPT !.name = h.objs[new].name, !.passed = Max0(m.passed), !.total = Max0(m.total)]
    IN  IF MergeRaises(h, existing, new)
        THEN [raised |-> TRUE, h |-> h, ref |-> 0]
        ELSE [raised |-> FALSE, h |-> Alloc(h, merged).h, ref |-> Alloc(h, merged).ref]

\* variant: a test name already present is not appended again
_merge_suite_results_dedup(h, existing, new) ==
    LET m == MergedRecord(h, existing, new)
        merged == [m EXCEPT !.tests = DedupByName(m.tests)]
    IN  IF MergeRaises(h, existing, new)
        THEN [raised |-> TRUE, h |-> h, ref |-> 0]
        ELSE [raised |-> FALSE, h |-> Alloc(h, merged).h, ref |-> Alloc(h, merged).ref]

\* variant: total is recomputed from the counters of new
_merge_suite_results_recount(h, existing, new) ==
    LET m == MergedRecord(h, existing, new)
        n == h.objs[new]
        merged == [m EXCEPT !.total = h.objs[existing].total + n.passed + n.failed + n.skipped + n.errors]
    IN  IF MergeRaises(h, existing, new)
        THEN [raised |-> TRUE, h |-> h, ref |-> 0]
        ELSE [raised |-> FALSE, h |-> Alloc(h, merged).h, ref |-> Alloc(h, merged).ref]

\* variant: existing is updated in place (its list extended) and returned
_merge_suite_results_inplace(h, existing, new) ==
    LET m == MergedRecord(h, existing, new)
        e == h.objs[existing]
    IN  IF MergeRaises(h, existing, new)
        THEN [raised |-> TRUE, h |-> h, ref |-> 0]
        ELSE [raised |-> FALSE,
              h |-> [objs  |-> [h.objs EXCEPT ![existing] = [m EXCEPT !.tests = e.tests]],
                     lists |-> [h.lists EXCEPT ![e.tests] = m.tests]],
              ref |-> existing]

\* variant: failed is not summed
_merge_suite_results_nofailed(h, existing, new) ==
    LET m == MergedRecord(h, existing, new)
        merged == [m EXCEPT !.failed = h.objs[existing].failed]
    IN  IF MergeRaises(h, existing, new)
        THEN [raised |-> TRUE, h |-> h, ref |-> 0]
        ELSE [raised |-> FALSE, h |-> Alloc(h, merged).h, ref |-> Alloc(h, merged).ref]

\* variant: total is that of existing
_merge_suite_results_keeptotal(h, existing, new) ==
    LET m == MergedRecord(h, existing, new)
        merged == [m EXCEPT !.total = h.objs[existing].total]
    IN  IF MergeRaises(h, existing, new)
        THEN [raised |-> TRUE, h |-> h, ref |-> 0]
        ELSE [raised |-> FALSE, h |-> Alloc(h, merged).h, ref |-> Alloc(h, merged).ref]

\* existing and new are references; the result is a new object with a new list
_merge_suite_results(h, existing, new) ==
    LET merged == MergedRecord(h, existing, new)
    IN  IF MergeRaises(h, existing, new)
        THEN [raised |-> TRUE, h |-> h, ref |-> 0]
        ELSE [raised |-> FALSE, h |-> Alloc(h, merged).h, ref |-> Alloc(h, merged).ref]

(***************************************************************************)
(* Orchestrator: process_test_files                                        *)
(***************************************************************************)
\* the dispatch on file_path.suffix.lower()
ParserOf(file_path) ==
    LET suffix == Lower(PathSuffix(file_path))
    IN  IF suffix = ".xml" THEN "_parse_junit_xml"
        ELSE IF suffix = ".json" THEN "_parse_json_report"
        ELSE IF suffix = ".html" THEN "_parse_html_report"
        ELSE IF suffix \in {".txt", ".log"} THEN "_parse_text_report"
        ELSE "unsupported"

\* suite_results of one file
ParseFile(file, parser_available) ==
    LET parser == ParserOf(file.path)
    IN  IF parser = "_parse_junit_xml" THEN _parse_junit_xml(file.path, file.doc)
        ELSE IF parser = "_parse_json_report" THEN _parse_json_report(file.path, file.doc)
        ELSE IF parser = "_parse_html_report" THEN _parse_html_report(file.path, file.doc, parser_available)
        ELSE IF parser = "_parse_text_report" THEN _parse_text_report(file.path, file.doc)
        ELSE Returned(<<>>)

RECURSIVE MergeLoop(_, _, _, _)
\* "for suite_name, suite_result in suite_results.items()" over d[1..n]:
\* [h, acc, raised]; an exception leaves the loop with what was done so far
MergeLoop(h, acc, d, n) ==
    IF n = 0 THEN [h |-> h, acc |-> acc, raised |-> FALSE]
    ELSE LET before == MergeLoop(h, acc, d, n - 1)
             suite_name == d[n].key
         IN  IF before.raised THEN before
             ELSE IF suite_name \in DictKeys(before.acc)
             THEN LET m == _merge_suite_results(before.h, DictGet(before.acc, suite_name), d[n].val)
                  IN  IF m.raised THEN [before EXCEPT !.raised = TRUE]
                      ELSE [h |-> m.h, acc |-> DictSet(before.acc, suite_name, m.ref), raised |-> FALSE]
             ELSE [h |-> before.h, acc |-> DictSet(before.acc, suite_name, d[n].val), raised |-> FALSE]

\* the try block for one eligible file: parse, then merge
TryFile(h, acc, file, parser_available) ==
    LET Merge(out) ==
            IF out.raised THEN [h |-> h, acc |-> acc, raised |-> TRUE]
            ELSE LET a == AllocAll(h, out.results, Len(out.results))
                 IN  MergeLoop(a.h, acc, a.d, Len(a.d))
    IN  Merge(ParseFile(file, parser_available))

Heap == [objs |-> objs, lists |-> lists]

\* "if not self._is_test_result_file(file_path): continue"
SkipFile ==
    /\ pc = "loop"
    /\ idx < Len(files)
    /\ ~_is_test_result_file(files[idx + 1].path)
    /\ idx' = idx + 1
    /\ UNCHANGED <<files, test_results, processed_count, parse_calls, raised_at, log,
                   pc, objs, lists, HTML_PARSER_AVAILABLE, extracted_files, disk, args, ret>>

\* one iteration of the loop for an eligible file
ProcessFile ==
    /\ pc = "loop"
    /\ idx < Len(files)
    /\ _is_test_result_file(files[idx + 1].path)
    /\ LET file == files[idx + 1]
       IN  \E r \in {TryFile(Heap, test_results, file, HTML_PARSER_AVAILABLE)} :
           /\ idx' = idx + 1
           /\ processed_count' = processed_count + 1
           /\ parse_calls' = IF ParserOf(file.path) = "unsupported" THEN parse_calls
                             ELSE Append(parse_calls, <<idx + 1, ParserOf(file.path)>>)
           /\ test_results' = r.acc
           /\ objs' = r.h.objs
           /\ lists' = r.h.lists
           /\ raised_at' = IF r.raised THEN Append(raised_at, idx + 1) ELSE raised_at
           /\ log' = IF r.raised THEN Append(log, "Failed to process") ELSE log
    /\ UNCHANGED <<files, pc, HTML_PARSER_AVAILABLE, extracted_files, disk, args, ret>>

\* after the loop: the "no test result files" warning, then return test_results
ReturnResults ==
    /\ pc = "loop"
    /\ idx = Len(files)
    /\ log' = IF Len(test_results) = 0 /\ processed_count = 0
              THEN Append(log, "No test result files detected")
              ELSE log
    /\ ret' = Some(test_results)
    /\ pc' = "done"
    /\ UNCHANGED <<files, idx, test_results, processed_count, parse_calls, raised_at,
                   objs, lists, HTML_PARSER_AVAILABLE, extracted_files, disk, args>>

(***************************************************************************)
(* Input documents                                                         *)
(***************************************************************************)
NoAttrib == [k \in {} |-> ""]

Elem(tag, attrib, text, children) ==
    [tag |-> tag, attrib |-> attrib, text |-> text, children |-> children]

CasePassed(name) == Elem("testcase", [name |-> name, time |-> "0.5"], None, <<>>)

CaseFailed(name) ==
    Elem("testcase", [name |-> name], None,
         <<Elem("failure", [message |-> "assert failed"], Some("trace"), <<>>)>>)

CaseSkipped(name) == Elem("testcase", [name |-> name], None, <<Elem("skipped", NoAttrib, None, <<>>)>>)

\* 10 tests, 2 failures, no name attribute
SuiteTen == Elem("testsuite", [tests |-> "10", failures |-> "2", errors |-> "0", skipped |-> "0"], None, <<>>)

SuiteTenNamed ==
    Elem("testsuite", [name |-> "suiteA", tests |-> "10", failures |-> "2", errors |-> "0", skipped |-> "0"],
         None, <<>>)

\* only skipped tests
SuiteSkipped ==
    Elem("testsuite", [name |-> "other", tests |-> "3", skipped |-> "3", failures |-> "0", errors |-> "0"],
         None, <<CaseSkipped("t_a"), CaseSkipped("t_b"), CaseSkipped("t_c")>>)

SuiteOther ==
    Elem("testsuite", [name |-> "other", tests |-> "2", failures |-> "1", time |-> "1.5"],
         None, <<CasePassed("t_a"), CaseFailed("t_b")>>)

SuiteResults ==
    Elem("testsuite", [name |-> "results", tests |-> " 1", time |-> "0.25"], None, <<CasePassed("t_a")>>)

\* inconsistent header: more failures than tests
SuiteNegative == Elem("testsuite", [name |-> "results", tests |-> "0", failures |-> "1"], None, <<>>)

\* tests is not a number: int() raises ValueError
SuiteBad == Elem("testsuite", [name |-> "results", tests |-> "many"], None, <<>>)

Xml(root) == [fmt |-> "xml", wellformed |-> TRUE, root |-> root]

XmlMalformed == [fmt |-> "xml", wellformed |-> FALSE, root |-> Elem("", NoAttrib, None, <<>>)]

Suites(children) == Elem("testsuites", NoAttrib, None, children)

Json(kind, data) == [fmt |-> "json", kind |-> kind, data |-> data]

\* {"summary": {"total": 5, "passed": 4, "failed": 1, "skipped": 0, "error": 0}}
JsonSummaryFive ==
    Json("object", [summary |-> [total |-> Some(5), passed |-> Some(4), failed |-> Some(1),
                                 skipped |-> Some(0), error |-> Some(0)]])

\* {"summary": {"total": null, "passed": 4}, "duration": 2.0}
JsonSummaryNull == Json("object", [summary |-> [total |-> None, passed |-> Some(4)], duration |-> Some(2000)])

\* {"summary": {"passed": null}}
JsonSummaryNoPassed == Json("object", [summary |-> [passed |-> None]])

\* {"tests": [...], "duration": 1.0}
JsonTests ==
    Json("object",
         [tests |-> JArray(<<[nodeid |-> "t_a", outcome |-> "passed", duration |-> 100],
                             [nodeid |-> "t_b", outcome |-> "FAILED", call |-> [longrepr |-> "boom"]],
                             [nodeid |-> "t_c", outcome |-> "xfailed"],
                             [outcome |-> "skipped"]>>),
          duration |-> Some(1000)])

Text(content) == [fmt |-> "text", content |-> content]

Html(summary_table, tbody, content, table_rows) ==
    [fmt |-> "html", summary_table |-> summary_table, tbody |-> tbody,
     content |-> content, table_rows |-> table_rows]

HtmlReport ==
    Html(Some(<<<<"Passed", "2">>, <<"Failed", "1">>, <<"Duration", "3s">>>>),
         Some(<<Some("Passed"), Some("Passed"), Some("Failed")>>),
         "2 Passed, 1 failed", 0)

NoDoc == [fmt |-> "none"]

File(path, doc) == [path |-> path, doc |-> doc]

\* the files a run can be given
FilePool ==
    { File("suiteA/results.xml", Xml(SuiteTen)),
      File("suiteA/results.xml", Xml(SuiteTenNamed)),
      File("suiteA/results.json", JsonSummaryFive),
      File("junit.xml", Xml(Suites(<<SuiteSkipped, SuiteResults>>))),
      File("TEST-all.XML", Xml(Suites(<<SuiteOther, SuiteResults>>))),
      File("junit.xml", Xml(Suites(<<SuiteOther, SuiteBad>>))),
      File("pytest_report.xml", XmlMalformed),
      File("b/test_neg.xml", Xml(SuiteNegative)),
      File("b/results.json", JsonSummaryNull),
      File("b/results.json", JsonTests),
      File("report.json", Json("scalar", NoAttrib)),
      File("report.json", Json("malformed", NoAttrib)),
      File("report.json", JsonSummaryNoPassed),
      File("results.log", Text("FAILED t_a - boom\n1 failed, 2 passed in 3s")),
      File("pytest_output.txt", Text("3 skipped")),
      File("results.html", HtmlReport),
      File("summary.xml", Xml(SuiteOther)),
      File("results.csv", NoDoc) }

RECURSIVE SeqsUpTo(_, _)
\* the sequences over S of length at most n
SeqsUpTo(S, n) ==
    IF n = 0 THEN {<<>>}
    ELSE SeqsUpTo(S, n - 1) \cup {Append(q, x) : q \in {q \in SeqsUpTo(S, n - 1) : Len(q) = n - 1}, x \in S}

(***************************************************************************)
(* Specification of a run of process_test_files                            *)
(***************************************************************************)
Init ==
    /\ files \in SeqsUpTo(FilePool, MaxFiles)
    /\ idx = 0
    /\ test_results = <<>>
    /\ processed_count = 0
    /\ parse_calls = <<>>
    /\ raised_at = <<>>
    /\ log = <<>>
    /\ pc = "loop"
    /\ objs = <<>>
    /\ lists = <<>>
    /\ HTML_PARSER_AVAILABLE \in BOOLEAN
    /\ extracted_files = <<>>
    /\ disk = <<>>
    /\ args = <<>>
    /\ ret = None

Next == SkipFile \/ ProcessFile \/ ReturnResults

Spec == Init /\ [][Next]_vars

\* the value of the returned map: the ordered dict of suite records
Result == [i \in 1..Len(test_results) |->
              [key |-> test_results[i].key, val |-> Deref(Heap, test_results[i].val)]]

(***************************************************************************)
(* Specification of a run on a single file, over a wide range of names     *)
(***************************************************************************)
NameStems ==
    {"summary", "pytest_report", "results", "Test", "JUNIT", "coverage", "pytr",
     "my-Report", "data", "x.test", "tes", "latest", "a.b"}

NameExts == {".xml", ".XML", ".json", ".html", ".txt", ".log", ".Log", ".md", ".xml.bak", "", ".xmlx"}

NamePool == {"out/" \o stem \o ext : stem \in NameStems, ext \in NameExts} \cup {".xml", "test", "test.", "a/test.xml/b"}

\* a document the parser selected by the file's extension can read
DocFor(path) ==
    LET parser == ParserOf(path)
    IN  IF parser = "_parse_junit_xml" THEN Xml(Suites(<<SuiteOther, SuiteResults>>))
        ELSE IF parser = "_parse_json_report" THEN JsonTests
        ELSE IF parser = "_parse_html_report" THEN HtmlReport
        ELSE IF parser = "_parse_text_report" THEN Text("1 failed, 2 passed in 3s")
        ELSE NoDoc

InitGate ==
    /\ files \in {<<File(path, DocFor(path))>> : path \in NamePool}
    /\ idx = 0
    /\ test_results = <<>>
    /\ processed_count = 0
    /\ parse_calls = <<>>
    /\ raised_at = <<>>
    /\ log = <<>>
    /\ pc = "loop"
    /\ objs = <<>>
    /\ lists = <<>>
    /\ HTML_PARSER_AVAILABLE \in BOOLEAN
    /\ extracted_files = <<>>
    /\ disk = <<>>
    /\ args = <<>>
    /\ ret = None

SpecGate == InitGate /\ [][Next]_vars

(***************************************************************************)
(* Specification of calls of _merge_suite_results on records a, b, c:      *)
(* ab = merge(a, b), ba = merge(b, a), (ab)c, bc = merge(b, c), a(bc)      *)
(***************************************************************************)
TestA == TestResult("t_a", "passed", 500, "A")

TestB == [TestResult("t_b", "failed", 0, "A") EXCEPT !.failure_message = Some("boom")]

Suite(name, total, passed, failed, skipped, errors, duration, tests) ==
    [name |-> name, total |-> total, passed |-> passed, failed |-> failed, skipped |-> skipped,
     errors |-> errors, duration |-> duration, tests |-> tests, nonnum |-> {}]

\* the records the merger is called with
SuitePool ==
    { Suite("A", 3, 1, 1, 1, 0, 1500, <<TestA, TestB>>),
      Suite("A", 0, 0 - 1, 1, 0, 0, 0, <<>>),
      Suite("A", 7, 1, 0, 2, 1, 250, <<TestA>>),
      Suite("A", 2, 2, 0, 0, 0, 100, <<TestA, TestA>>),
      Suite("B", 2, 0, 0, 0, 2, 100, <<TestB, TestA>>) }

\* operands of the successive calls: k > 0 is the k-th argument record,
\* -k is what the k-th call returned
MergeScript == <<<<1, 2>>, <<2, 1>>, <<0 - 1, 3>>, <<2, 3>>, <<1, 0 - 4>>>>

Operand(o) == IF o > 0 THEN o ELSE ret[0 - o]

InitMerge ==
    /\ args \in SuitePool \X SuitePool \X SuitePool
    /\ LET a == AllocAll([objs |-> <<>>, lists |-> <<>>],
                         [i \in 1..3 |-> [key |-> args[i].name, val |-> args[i]]], 3)
       IN  objs = a.h.objs /\ lists = a.h.lists
    /\ idx = 0
    /\ ret = <<>>
    /\ pc = "merge"
    /\ files = <<>>
    /\ test_results = <<>>
    /\ processed_count = 0
    /\ parse_calls = <<>>
    /\ raised_at = <<>>
    /\ log = <<>>
    /\ HTML_PARSER_AVAILABLE = TRUE
    /\ extracted_files = <<>>
    /\ disk = <<>>

\* the next call of the script
MergeStep ==
    /\ pc = "merge"
    /\ idx < Len(MergeScript)
    /\ LET m == _merge_suite_results(Heap, Operand(MergeScript[idx + 1][1]), Operand(MergeScript[idx + 1][2]))
       IN  /\ objs' = m.h.objs
           /\ lists' = m.h.lists
           /\ ret' = Append(ret, m.ref)
    /\ idx' = idx + 1
    /\ UNCHANGED <<files, test_results, processed_count, parse_calls, raised_at, log, pc,
                   HTML_PARSER_AVAILABLE, extracted_files, disk, args>>

NextMerge == MergeStep

SpecMerge == InitMerge /\ [][NextMerge]_vars

(***************************************************************************)
(* Specification of a call of _has_meaningful_results; args is             *)
(* <<passed, failed, error, skipped>>, skipped being the count the caller  *)
(* holds but does not pass                                                 *)
(***************************************************************************)
\* the counts tried are -MaxCount..MaxCount
MaxCount == 2

InitFilter ==
    /\ LET counts == (0 - MaxCount)..MaxCount
       IN  args \in counts \X counts \X counts \X (0..MaxCount)
    /\ ret = None
    /\ pc = "call"
    /\ files = <<>>
    /\ idx = 0
    /\ test_results = <<>>
    /\ processed_count = 0
    /\ parse_calls = <<>>
    /\ raised_at = <<>>
    /\ log = <<>>
    /\ objs = <<>>
    /\ lists = <<>>
    /\ HTML_PARSER_AVAILABLE = TRUE
    /\ extracted_files = <<>>
    /\ disk = <<>>

CallFilter ==
    /\ pc = "call"
    /\ ret' = Some(_has_meaningful_results(args[1], args[2], args[3]))
    /\ pc' = "returned"
    /\ UNCHANGED <<files, idx, test_results, processed_count, parse_calls, raised_at, log,
                   objs, lists, HTML_PARSER_AVAILABLE, extracted_files, disk, args>>

NextFilter == CallFilter

SpecFilter == InitFilter /\ [][NextFilter]_vars

(***************************************************************************)
(* Specification of a call of _extract_suite_name_from_artifact; args is   *)
(* <<artifact_name>>                                                       *)
(***************************************************************************)
MaxPieces == 3

NamePrefixes == {"", "artifacts_", "artifacts_artifacts_"}

NamePieces == {"BFT PyTest ", "PyTest test_report=", "; JobAttempt=1", "Cert_Test", " ", "a=b;c"}

\* the names of the docstring (lines 126-128) and of the documentation
DocumentedNames ==
    {"PyTest test_report=BFT PyTest Cert_Test; JobAttempt=1",
     "artifacts_BFT PyTest Cert_Test; JobAttempt=1",
     "artifacts_PyTest test_report=BFT PyTest Fus_Negative_Test; JobAttempt=1",
     "artifacts_PyTest test_report=BFT PyTest Rest_ExtFlashDCINV_Test; JobAttempt=1",
     "random name",
     "\tBFT PyTest \n Cert_Test \t; JobAttempt=2; JobAttempt=1"}

RECURSIVE Joined(_)
Joined(pieces) == IF Len(pieces) = 0 THEN "" ELSE pieces[1] \o Joined(Tail(pieces))

ArtifactNames ==
    {prefix \o Joined(pieces) : prefix \in NamePrefixes, pieces \in SeqsUpTo(NamePieces, MaxPieces)}
        \cup DocumentedNames

InitResolve ==
    /\ args \in {<<name>> : name \in ArtifactNames}
    /\ ret = None
    /\ pc = "call"
    /\ files = <<>>
    /\ idx = 0
    /\ test_results = <<>>
    /\ processed_count = 0
    /\ parse_calls = <<>>
    /\ raised_at = <<>>
    /\ log = <<>>
    /\ objs = <<>>
    /\ lists = <<>>
    /\ HTML_PARSER_AVAILABLE = TRUE
    /\ extracted_files = <<>>
    /\ disk = <<>>

CallResolve ==
    /\ pc = "call"
    /\ ret' = Some(_extract_suite_name_from_artifact(args[1]))
    /\ log' = IF ResolverWarns(args[1]) THEN Append(log, "Could not extract suite name") ELSE log
    /\ pc' = "returned"
    /\ UNCHANGED <<files, idx, test_results, processed_count, parse_calls, raised_at,
                   objs, lists, HTML_PARSER_AVAILABLE, extracted_files, disk, args>>

NextResolve == CallResolve

SpecResolve == InitResolve /\ [][NextResolve]_vars

(***************************************************************************)
(* Specification of a call of extract_artifact; args is                    *)
(* <<archive, artifact_name, output_dir>>, idx counts the entries the loop *)
(* has consumed.  pc = "raised": an exception left extract_artifact.       *)
(***************************************************************************)
MaxEntries == 2

Entry(filename, content, fault) == [filename |-> filename, content |-> content, fault |-> fault]

EntryPool ==
    {Entry("a.xml", "A", "none"), Entry("d/", "", "none"), Entry("d/b.xml", "B", "none"),
     Entry("../up.xml", "U", "none"), Entry("/etc/x.xml", "X", "none"),
     Entry("a.xml/c.xml", "C", "none"),
     Entry("b.xml", "B", "header"), Entry("b.xml", "B", "crc"), Entry("b.xml", "B", "stream")}

Archives ==
    {[kind |-> "zip", entries |-> entries] : entries \in SeqsUpTo(EntryPool, MaxEntries)}
        \cup {[kind |-> "notzip", entries |-> <<>>]}

ExtractNames == {"PyTest test_report=BFT PyTest S; JobAttempt=1", "", "BFT PyTest x/../../y"}

InitExtract ==
    /\ args \in Archives \X ExtractNames \X {"/work/out"}
    /\ ret = None
    /\ pc = "start"
    /\ files = <<>>
    /\ idx = 0
    /\ test_results = <<>>
    /\ processed_count = 0
    /\ parse_calls = <<>>
    /\ raised_at = <<>>
    /\ log = <<>>
    /\ objs = <<>>
    /\ lists = <<>>
    /\ HTML_PARSER_AVAILABLE = TRUE
    /\ extracted_files = <<>>
    /\ disk = <<>>

\* lines 79-91: the suite directory is made, the archive is opened
BeginExtract ==
    /\ pc = "start"
    /\ IF args[1].kind = "notzip"
       THEN /\ ret' = Some(<<>>)
            /\ log' = Append(log, "Failed to extract artifact")
            /\ pc' = "returned"
       ELSE /\ pc' = "entries"
            /\ UNCHANGED <<ret, log>>
    /\ UNCHANGED <<files, idx, test_results, processed_count, parse_calls, raised_at,
                   objs, lists, HTML_PARSER_AVAILABLE, extracted_files, disk, args>>

\* "if file_info.is_dir(): continue"
SkipDirectory ==
    /\ pc = "entries"
    /\ idx < Len(args[1].entries)
    /\ is_dir(args[1].entries[idx + 1])
    /\ idx' = idx + 1
    /\ UNCHANGED <<files, test_results, processed_count, parse_calls, raised_at, log, pc,
                   objs, lists, HTML_PARSER_AVAILABLE, extracted_files, disk, args, ret>>

\* one iteration of the loop for a file entry (lines 97-105), with the
\* except clause of lines 110-112 when BadZipFile is raised
ExtractEntry ==
    /\ pc = "entries"
    /\ idx < Len(args[1].entries)
    /\ ~is_dir(args[1].entries[idx + 1])
    /\ LET file_info == args[1].entries[idx + 1]
           suite_dir == SuiteDirOf(args[2], args[3])
       IN  \E extracted_path \in {ExtractedPath(suite_dir, file_info)} :
             IF MkdirRaises(disk, extracted_path)
             THEN /\ pc' = "raised"
                  /\ UNCHANGED <<idx, ret, log, extracted_files, disk>>
             ELSE IF file_info.fault = "header"
             THEN /\ ret' = Some(<<>>)
                  /\ log' = Append(log, "Failed to extract artifact")
                  /\ pc' = "returned"
                  /\ UNCHANGED <<idx, extracted_files, disk>>
             ELSE IF OpenRaises(disk, suite_dir, extracted_path)
             THEN /\ pc' = "raised"
                  /\ UNCHANGED <<idx, ret, log, extracted_files, disk>>
             ELSE IF file_info.fault = "crc"
             THEN /\ disk' = DictSet(disk, OnDisk(extracted_path), "")
                  /\ ret' = Some(<<>>)
                  /\ log' = Append(log, "Failed to extract artifact")
                  /\ pc' = "returned"
                  /\ UNCHANGED <<idx, extracted_files>>
             ELSE IF file_info.fault = "stream"
             THEN /\ disk' = DictSet(disk, OnDisk(extracted_path), "")
                  /\ pc' = "raised"
                  /\ UNCHANGED <<idx, ret, log, extracted_files>>
             ELSE /\ disk' = DictSet(disk, OnDisk(extracted_path), file_info.content)
                  /\ extracted_files' = Append(extracted_files, extracted_path)
                  /\ idx' = idx + 1
                  /\ UNCHANGED <<ret, log, pc>>
    /\ UNCHANGED <<files, test_results, processed_count, parse_calls, raised_at,
                   objs, lists, HTML_PARSER_AVAILABLE, args>>

\* "return extracted_files" after the loop
ReturnExtracted ==
    /\ pc = "entries"
    /\ idx = Len(args[1].entries)
    /\ ret' = Some(extracted_files)
    /\ pc' = "returned"
    /\ UNCHANGED <<files, idx, test_results, processed_count, parse_calls, raised_at, log,
                   objs, lists, HTML_PARSER_AVAILABLE, extracted_files, disk, args>>

NextExtract == BeginExtract \/ SkipDirectory \/ ExtractEntry \/ ReturnExtracted

SpecExtract == InitExtract /\ [][NextExtract]_vars

(***************************************************************************)
(* Specification of one call of a parser on one document                   *)
(***************************************************************************)
\* the longest testcase list of a suite element and the longest tests array
MaxTests == 2

\* the mapping that holds the keys of opt that are present; <<>> is an absent key
Attrib(opt) == [k \in {k \in DOMAIN opt : opt[k] # <<>>} |-> opt[k][1]]

\* <testsuite> start tags
SuiteHeads ==
    {Attrib([name |-> n, tests |-> t, failures |-> f, errors |-> e, skipped |-> s]) :
        n \in {<<>>, <<"unit">>}, t \in {<<>>, <<"0">>, <<"5">>}, f \in {<<>>, <<"1">>},
        e \in {<<>>, <<"0">>, <<"2">>}, s \in {<<>>, <<"1">>}}

\* the start tags given testcase children: one included, one with skipped tests only
CaseHeads ==
    {[tests |-> "5", failures |-> "1", errors |-> "0", skipped |-> "1"],
     [name |-> "unit", tests |-> "1", skipped |-> "1"]}

FailureMsg == Elem("failure", [message |-> "assert failed"], Some("trace"), <<>>)

FailureText == Elem("failure", NoAttrib, Some("trace"), <<>>)

FailureBare == Elem("failure", NoAttrib, None, <<>>)

ErrorMsg == Elem("error", [message |-> "boom"], None, <<>>)

ErrorText == Elem("error", NoAttrib, Some("stack"), <<>>)

SkippedChild == Elem("skipped", NoAttrib, None, <<>>)

SystemOut == Elem("system-out", NoAttrib, Some("log"), <<>>)

\* the children of a <testcase>
CaseChildren ==
    {<<>>, <<FailureMsg>>, <<FailureText>>, <<FailureBare>>, <<ErrorMsg>>, <<ErrorText>>,
     <<SkippedChild>>, <<SystemOut>>, <<FailureMsg, ErrorMsg>>, <<ErrorText, FailureText>>,
     <<ErrorMsg, SkippedChild>>, <<SkippedChild, FailureMsg>>,
     <<SkippedChild, SystemOut, ErrorText, FailureBare>>, <<FailureText, FailureMsg>>}

CasePool == {Elem("testcase", [name |-> "t_a"], None, ch) : ch \in CaseChildren}

\* <testsuite> elements that share names
NamedSuites ==
    {Elem("testsuite", h, None, cs) :
        h \in {[name |-> "unit", tests |-> "5", failures |-> "1"],
               [name |-> "unit", tests |-> "2", errors |-> "2"],
               [name |-> "unit", tests |-> "1", skipped |-> "1"],
               [name |-> "other", tests |-> "5"]},
        cs \in {<<>>, <<CasePassed("t_a")>>, <<CaseFailed("t_b"), CasePassed("t_c")>>}}

XmlParsePool ==
    {Xml(Elem("testsuite", h, None, <<>>)) : h \in SuiteHeads}
        \cup {Xml(Elem("testsuite", h, None, cs)) : h \in CaseHeads, cs \in SeqsUpTo(CasePool, MaxTests)}
        \cup {Xml(Suites(ss)) : ss \in SeqsUpTo(NamedSuites, MaxTests)}
        \cup {XmlMalformed, Xml(Suites(<<SuiteOther, SuiteNegative>>)), Xml(SuiteBad)}

\* the elements of a "tests" array
JsonTestPool ==
    {[nodeid |-> "t_a", outcome |-> o] :
        o \in {"passed", "failed", "skipped", "error", "PASSED", "xfailed", "passed "}}
        \cup {[nodeid |-> "t_b"], [outcome |-> "Failed", call |-> [longrepr |-> "boom"]]}

\* "summary" objects: a key is absent, null or a number
JsonSummaries ==
    {Attrib([total |-> t, passed |-> p, failed |-> f, skipped |-> s, error |-> e]) :
        t \in {<<>>, <<Some(7)>>}, p \in {<<>>, <<None>>, <<Some(0)>>, <<Some(2)>>},
        f \in {<<>>, <<Some(0)>>, <<Some(1)>>}, s \in {<<>>, <<Some(1)>>},
        e \in {<<>>, <<None>>, <<Some(0)>>, <<Some(3)>>}}

JsonParsePool ==
    {Json("object", [tests |-> JArray(ts)]) : ts \in SeqsUpTo(JsonTestPool, MaxTests)}
        \cup {Json("object", [summary |-> sm]) : sm \in JsonSummaries}
        \cup {Json("object", [tests |-> JArray(<<[nodeid |-> "t_a", outcome |-> "passed"]>>),
                              summary |-> [total |-> Some(7), passed |-> Some(7)]]),
              Json("object", [tests |-> JOther("null"), summary |-> [total |-> Some(7), failed |-> Some(1)]]),
              Json("object", [tests |-> JOther("object"), summary |-> [passed |-> Some(0)]]),
              Json("object", [tests |-> JOther("number")]),
              Json("object", [duration |-> Some(1000)]),
              JsonTests, JsonSummaryFive,
              Json("malformed", NoAttrib), Json("undecodable", NoAttrib),
              Json("scalar", NoAttrib), Json("array", NoAttrib)}

\* lines of a log
TextLines ==
    {"2 passed", "0 passed", "1 failed", "3 skipped", "1 error", "12 errors in 3s",
     "4 Passed", "FAILED t_a - boom"}

RECURSIVE JoinLines(_)
JoinLines(lines) ==
    IF Len(lines) = 0 THEN ""
    ELSE IF Len(lines) = 1 THEN lines[1]
    ELSE lines[1] \o "\n" \o JoinLines(Tail(lines))

TextParsePool == {Text(JoinLines(lines)) : lines \in SeqsUpTo(TextLines, MaxTests)}

\* rows of the summary table: the texts of the cells
SummaryRows ==
    {<<"Passed", "2">>, <<"Passed", "0">>, <<"Failed", "1">>, <<"Skipped", "1">>, <<"Errors", "1">>,
     <<"Duration", "3s">>, <<"Failed">>}

\* rows of the tbody: the text of the col-result cell, if the row has one
ResultRows == {Some("Passed"), Some("Failed"), Some("Error"), Some("Skipped"), None}

HtmlParsePool ==
    {Html(summary_table, tbody, "2 Passed, 1 failed", 0) :
        summary_table \in {None} \cup {Some(rows) : rows \in SeqsUpTo(SummaryRows, MaxTests)},
        tbody \in {None} \cup {Some(rows) : rows \in SeqsUpTo(ResultRows, MaxTests)}}

ParsePool ==
    {File("suiteA/results.xml", doc) : doc \in XmlParsePool}
        \cup {File("b/report.json", doc) : doc \in JsonParsePool}
        \cup {File("logs/pytest_output.log", doc) : doc \in TextParsePool}
        \cup {File("html/report.html", doc) : doc \in HtmlParsePool}

InitParse ==
    /\ args \in {<<file>> : file \in ParsePool}
    /\ ret = None
    /\ pc = "call"
    /\ files = <<>>
    /\ idx = 0
    /\ test_results = <<>>
    /\ processed_count = 0
    /\ parse_calls = <<>>
    /\ raised_at = <<>>
    /\ log = <<>>
    /\ objs = <<>>
    /\ lists = <<>>
    /\ HTML_PARSER_AVAILABLE \in IF args[1].doc.fmt = "html" THEN BOOLEAN ELSE {TRUE}
    /\ extracted_files = <<>>
    /\ disk = <<>>

\* self._parse_junit_xml(file_path)
CallJunitXml ==
    /\ pc = "call"
    /\ args[1].doc.fmt = "xml"
    /\ \E r \in {_parse_junit_xml(args[1].path, args[1].doc)} :
        /\ ret' = IF r.raised THEN None ELSE Some(r.results)
        /\ pc' = IF r.raised THEN "raised" ELSE "returned"
    /\ log' = IF ~args[1].doc.wellformed THEN Append(log, "Failed to parse XML file") ELSE log
    /\ UNCHANGED <<files, idx, test_results, processed_count, parse_calls, raised_at,
                   objs, lists, HTML_PARSER_AVAILABLE, extracted_files, disk, args>>

\* self._parse_json_report(file_path)
CallJsonReport ==
    /\ pc = "call"
    /\ args[1].doc.fmt = "json"
    /\ \E r \in {_parse_json_report(args[1].path, args[1].doc)} :
        /\ ret' = IF r.raised THEN None ELSE Some(r.results)
        /\ pc' = IF r.raised THEN "raised" ELSE "returned"
    /\ log' = IF args[1].doc.kind = "malformed" THEN Append(log, "Failed to parse JSON file") ELSE log
    /\ UNCHANGED <<files, idx, test_results, processed_count, parse_calls, raised_at,
                   objs, lists, HTML_PARSER_AVAILABLE, extracted_files, disk, args>>

\* self._parse_text_report(file_path)
CallTextReport ==
    /\ pc = "call"
    /\ args[1].doc.fmt = "text"
    /\ \E r \in {_parse_text_report(args[1].path, args[1].doc)} :
        /\ ret' = IF r.raised THEN None ELSE Some(r.results)
        /\ pc' = IF r.raised THEN "raised" ELSE "returned"
    /\ UNCHANGED <<files, idx, test_results, processed_count, parse_calls, raised_at, log,
                   objs, lists, HTML_PARSER_AVAILABLE, extracted_files, disk, args>>

\* self._parse_html_report(file_path)
CallHtmlReport ==
    /\ pc = "call"
    /\ args[1].doc.fmt = "html"
    /\ \E r \in {_parse_html_report(args[1].path, args[1].doc, HTML_PARSER_AVAILABLE)} :
        /\ ret' = IF r.raised THEN None ELSE Some(r.results)
        /\ pc' = IF r.raised THEN "raised" ELSE "returned"
    /\ UNCHANGED <<files, idx, test_results, processed_count, parse_calls, raised_at, log,
                   objs, lists, HTML_PARSER_AVAILABLE, extracted_files, disk, args>>

NextParse == CallJunitXml \/ CallJsonReport \/ CallTextReport \/ CallHtmlReport

SpecParse == InitParse /\ [][NextParse]_vars

(***************************************************************************)
(* Properties                                                              *)
(***************************************************************************)
Counters(r) == <<r.total, r.passed, r.failed, r.skipped, r.errors>>

\* the run was given suiteA/results.xml (10 tests, 2 failures) and
\* suiteA/results.json (summary 5/4/1/0/0), in either order, and has returned
EndToEndScenario(xml_docs) ==
    /\ pc = "done"
    /\ Len(files) = 2
    /\ \E i \in 1..2 :
          /\ files[i].path = "suiteA/results.xml"
          /\ files[i].doc \in xml_docs
          /\ files[3 - i] = File("suiteA/results.json", JsonSummaryFive)

\* C1, as stated: in the end-to-end scenario the returned map has exactly
\* one entry, keyed suiteA, with total=15, passed=12, failed=3, skipped=0,
\* errors=0.
C1_Original ==
    EndToEndScenario({Xml(SuiteTen), Xml(SuiteTenNamed)}) =>
        /\ Len(Result) = 1
        /\ Result[1].key = "suiteA"
        /\ Counters(Result[1].val) = <<15, 12, 3, 0, 0>>

\* C1, amended: when the XML suite element has no name attribute, the
\* returned map has exactly one entry, keyed by the files' base name
\* "results" (the directory suiteA plays no part), with total=15, passed=12,
\* failed=3, skipped=0, errors=0.
C1_EndToEnd ==
    EndToEndScenario({Xml(SuiteTen)}) =>
        /\ Len(Result) = 1
        /\ Result[1].key = "results"
        /\ Result[1].val.name = "results"
        /\ Counters(Result[1].val) = <<15, 12, 3, 0, 0>>

C1_Witness == EndToEndScenario({Xml(SuiteTen)}) /\ Len(Result) = 1

\* the arguments and the result of the k-th call of the merger
CallExisting(k) == Deref(Heap, Operand(MergeScript[k][1]))

CallNew(k) == Deref(Heap, Operand(MergeScript[k][2]))

CallReturn(k) == Deref(Heap, ret[k])

\* C2: every numeric field of merge(a, b) is a's value plus b's value, with
\* no clamping and no recomputation of total, and the name is a's name.
C2_MergeSums ==
    pc = "merge" =>
        \A k \in 1..Len(ret) :
            LET a == CallExisting(k)
                b == CallNew(k)
                m == CallReturn(k)
            IN  /\ m.total = a.total + b.total
                /\ m.passed = a.passed + b.passed
                /\ m.failed = a.failed + b.failed
                /\ m.skipped = a.skipped + b.skipped
                /\ m.errors = a.errors + b.errors
                /\ m.duration = a.duration + b.duration
                /\ m.name = a.name

\* a call whose sum of passed is negative, whose total is not the sum of the
\* other counters, and whose two names differ
C2_Witness ==
    /\ pc = "merge"
    /\ \E k \in 1..Len(ret) :
          /\ CallReturn(k).passed < 0
          /\ CallExisting(k).name # CallNew(k).name
    /\ \E k \in 1..Len(ret) :
          CallReturn(k).total # CallReturn(k).passed + CallReturn(k).failed
                                  + CallReturn(k).skipped + CallReturn(k).errors

Occurrences(tests, name) == Cardinality({i \in 1..Len(tests) : tests[i].name = name})

TestNames(tests) == {tests[i].name : i \in 1..Len(tests)}

\* s is u repeated a whole number of times
IsRepetitionOf(s, u) ==
    /\ Len(u) > 0
    /\ Len(s) % Len(u) = 0
    /\ \A i \in 1..Len(s) : s[i] = u[((i - 1) % Len(u)) + 1]

RepetitionsOfOne(s, t) ==
    \E n \in 1..Len(s) : IsRepetitionOf(s, SubSeq(s, 1, n)) /\ IsRepetitionOf(t, SubSeq(s, 1, n))

\* the tests of merge(a, b) are a.tests followed by b.tests, nothing dropped
ConcatenatesTests ==
    \A k \in 1..Len(ret) :
        LET a == CallExisting(k).tests
            b == CallNew(k).tests
            m == CallReturn(k).tests
        IN  /\ Len(m) = Len(a) + Len(b)
            /\ \A i \in 1..Len(a) : m[i] = a[i]
            /\ \A i \in 1..Len(b) : m[Len(a) + i] = b[i]
            /\ \A name \in TestNames(a) \cup TestNames(b) :
                  Occurrences(m, name) = Occurrences(a, name) + Occurrences(b, name)

\* C3, as stated: concatenation without deduplication, and merge(a, b).tests
\* differs from merge(b, a).tests whenever a.tests and b.tests are different
\* non-empty sequences.
C3_Original ==
    (pc = "merge" /\ Len(ret) >= 2) =>
        /\ ConcatenatesTests
        /\ (args[1].tests # args[2].tests /\ Len(args[1].tests) > 0 /\ Len(args[2].tests) > 0)
              => CallReturn(1).tests # CallReturn(2).tests

\* C3, amended: concatenation without deduplication, and merge(a, b).tests
\* differs from merge(b, a).tests whenever a.tests and b.tests are non-empty
\* and are not both repetitions of one same sequence.
C3_Concatenation ==
    (pc = "merge" /\ Len(ret) >= 2) =>
        /\ ConcatenatesTests
        /\ (Len(args[1].tests) > 0 /\ Len(args[2].tests) > 0
            /\ ~RepetitionsOfOne(args[1].tests, args[2].tests))
              => CallReturn(1).tests # CallReturn(2).tests

\* a and b hold a test of the same name, and the two orders differ
C3_Witness ==
    /\ pc = "merge"
    /\ Len(ret) >= 2
    /\ TestNames(args[1].tests) \cap TestNames(args[2].tests) # {}
    /\ ~RepetitionsOfOne(args[1].tests, args[2].tests)
    /\ Len(CallReturn(1).tests) = Len(args[1].tests) + Len(args[2].tests)
    /\ CallReturn(1).tests # CallReturn(2).tests

\* C4: on records of one name, merge(a, b) and merge(b, a) agree on all
\* counters and on duration; merge(merge(a, b), c) and merge(a, merge(b, c))
\* agree on the counters and on the tests sequence.
C4_Algebra ==
    (pc = "merge" /\ Len(ret) = Len(MergeScript)
     /\ args[1].name = args[2].name /\ args[2].name = args[3].name) =>
        /\ Counters(CallReturn(1)) = Counters(CallReturn(2))
        /\ CallReturn(1).duration = CallReturn(2).duration
        /\ Counters(CallReturn(3)) = Counters(CallReturn(5))
        /\ CallReturn(3).tests = CallReturn(5).tests

\* all five calls made on three different records of one name, one of them
\* with a total that is not the sum of its other counters
C4_Witness ==
    /\ pc = "merge"
    /\ Len(ret) = Len(MergeScript)
    /\ args[1].name = args[2].name /\ args[2].name = args[3].name
    /\ Cardinality({args[1], args[2], args[3]}) = 3
    /\ args[2].total # args[2].passed + args[2].failed + args[2].skipped + args[2].errors
    /\ CallReturn(1).tests # CallReturn(2).tests

NoSharedList == \A r1, r2 \in DOMAIN objs : r1 # r2 => objs[r1].tests # objs[r2].tests

Contribution(i) ==
    IF _is_test_result_file(files[i].path) /\ ~(\E k \in 1..Len(raised_at) : raised_at[k] = i)
    THEN ParseFile(files[i], HTML_PARSER_AVAILABLE).results
    ELSE <<>>

\* the sum of two records, field by field
Sum(a, b) ==
    [name |-> a.name, total |-> a.total + b.total, passed |-> a.passed + b.passed,
     failed |-> a.failed + b.failed, skipped |-> a.skipped + b.skipped,
     errors |-> a.errors + b.errors, duration |-> a.duration + b.duration,
     tests |-> a.tests \o b.tests, nonnum |-> {}]

RECURSIVE FoldNamed(_, _)
\* the left-to-right merge of the records named name in the contributions
\* of files[1..n]: <<>> when there is none, else <<record>>
FoldNamed(name, n) ==
    IF n = 0 THEN <<>>
    ELSE LET before == FoldNamed(name, n - 1)
             Add(d) ==
                 IF name \notin DictKeys(d) THEN before
                 ELSE IF before = <<>> THEN <<DictGet(d, name)>>
                 ELSE <<Sum(before[1], DictGet(d, name))>>
         IN  Add(Contribution(n))

ContributedNames == UNION {DictKeys(Contribution(i)) : i \in 1..Len(files)}

\* C6: the returned map holds exactly the names that some eligible,
\* non-failing file's parser output holds, each with the left-to-right merge
\* of the per-file records of that name, the first one inserted as is.
C6_Fold ==
    pc = "done" =>
        /\ DictKeys(Result) = ContributedNames
        /\ \A name \in DictKeys(Result) : <<DictGet(Result, name)>> = FoldNamed(name, Len(files))

\* C7: a file whose processing raises leaves the accumulator exactly as it
\* was before that file.
C7_FaultIsolation == [][Len(raised_at') > Len(raised_at) => test_results' = test_results]_vars

EligibleStems == {"pytest_report", "results", "Test", "JUNIT", "coverage", "pytr", "my-Report", "x.test", "latest"}

EligibleExts == {".xml", ".XML", ".json", ".html", ".txt", ".log", ".Log"}

\* the names of NamePool with a supported extension and a pattern in the name
EligiblePaths == {"out/" \o stem \o ext : stem \in EligibleStems, ext \in EligibleExts}

\* C8: a file passes the gate iff its lower-cased extension is supported
\* and its lower-cased name contains a pattern; summary.xml does not pass,
\* pytest_report.xml does; a file that does not pass is given to no parser
\* and adds no suite.
C8_Gate ==
    LET path == files[1].path
    IN  /\ _is_test_result_file(path) <=> path \in EligiblePaths
        /\ path \notin EligiblePaths => parse_calls = <<>> /\ test_results = <<>> /\ processed_count = 0
        /\ (pc = "done" /\ path \in EligiblePaths) => Len(parse_calls) = 1 /\ processed_count = 1
        /\ (pc = "done" /\ path = "out/pytest_report.xml") => DictKeys(Result) = {"other", "results"}

\* the run on summary.xml, whose content is a valid report, has returned
C8_Witness ==
    /\ pc = "done"
    /\ files[1].path = "out/summary.xml"
    /\ Len(SuiteElements(files[1].doc.root)) = 2
    /\ Result = <<>>

\* the name of a suite element in a file
SuiteNameOf(elem, path) == IF "name" \in DOMAIN elem.attrib THEN elem.attrib.name ELSE PathStem(path)

\* a suite element whose derived passed, failures and errors are all <= 0
SkippedOnly(elem) ==
    /\ IntAttr(elem, "tests").ok /\ IntAttr(elem, "failures").ok
    /\ IntAttr(elem, "errors").ok /\ IntAttr(elem, "skipped").ok
    /\ IntAttr(elem, "tests").v - IntAttr(elem, "failures").v
         - IntAttr(elem, "errors").v - IntAttr(elem, "skipped").v <= 0
    /\ IntAttr(elem, "failures").v <= 0
    /\ IntAttr(elem, "errors").v <= 0

\* the document with its skipped-only suite elements taken out
WithoutSkippedOnly(doc) ==
    [doc EXCEPT !.root = Suites(SelectSeq(SuiteElements(doc.root), LAMBDA e : ~SkippedOnly(e)))]

IsXmlRun(i) ==
    /\ _is_test_result_file(files[i].path)
    /\ ParserOf(files[i].path) = "_parse_junit_xml"
    /\ files[i].doc.wellformed

\* file i has something that can put a record named name into the output
CanYield(i, name) ==
    /\ _is_test_result_file(files[i].path)
    /\ IF ParserOf(files[i].path) = "_parse_junit_xml"
       THEN /\ files[i].doc.wellformed
            /\ \E k \in 1..Len(SuiteElements(files[i].doc.root)) :
                  LET elem == SuiteElements(files[i].doc.root)[k]
                  IN  SuiteNameOf(elem, files[i].path) = name /\ ~SkippedOnly(elem)
       ELSE PathStem(files[i].path) = name

\* C9: a skipped-only XML suite element is not in the output and adds to no
\* counter (the file yields what it yields without the element), and the
\* other suite elements of its file are included.
C9_SkippedOnlyExcluded ==
    /\ \A i \in 1..idx :
          IsXmlRun(i) =>
              _parse_junit_xml(files[i].path, files[i].doc)
                  = _parse_junit_xml(files[i].path, WithoutSkippedOnly(files[i].doc))
    /\ \A name \in DictKeys(test_results) : \E i \in 1..idx : CanYield(i, name)
    /\ \A i \in 1..idx :
          (IsXmlRun(i) /\ ~(\E k \in 1..Len(raised_at) : raised_at[k] = i)) =>
              \A k \in 1..Len(SuiteElements(files[i].doc.root)) :
                  LET elem == SuiteElements(files[i].doc.root)[k]
                  IN  ~SkippedOnly(elem) => SuiteNameOf(elem, files[i].path) \in DictKeys(test_results)

\* a file with a skipped-only suite "other" and a suite "results" was processed
C9_Witness ==
    /\ pc = "done"
    /\ files = <<File("junit.xml", Xml(Suites(<<SuiteSkipped, SuiteResults>>)))>>
    /\ SkippedOnly(SuiteSkipped)
    /\ DictKeys(Result) = {"results"}
    /\ Counters(Result[1].val) = <<1, 1, 0, 0, 0>>

\* C10: the filter is true iff one of passed, failed, error is greater than
\* zero, negative numbers included; the skipped count plays no part.
C10_Filter ==
    pc = "returned" =>
        /\ ret[1] = (\E i \in 1..3 : args[i] > 0)
        /\ (<<args[1], args[2], args[3]>> = <<0, 0, 0>>) => ret[1] = FALSE
        /\ (<<args[1], args[2], args[3]>> \in {<<1, 0, 0>>, <<0, 1, 0>>, <<0, 0, 1>>}) => ret[1] = TRUE

\* one count is positive although the three add up to nothing
C10_Witness ==
    /\ pc = "returned"
    /\ args[3] > 0
    /\ args[1] + args[2] + args[3] <= 0
    /\ args[4] > 0
    /\ ret = <<TRUE>>

\* the artifact name with one leading "artifacts_" taken off
Unprefixed(name) == IF Slice(name, 1, 10) = "artifacts_" THEN Slice(name, 11, Len(name)) ELSE name

\* C11: the resolver returns (does not raise) and what it returns is a
\* non-empty string, for every artifact name, the empty one included.
C11_Total == pc = "returned" => (Len(ret) = 1 /\ Len(ret[1]) > 0)

IsWhite(c) == c \in {" ", "\t", "\n"}

\* r is s without the white space at its two ends
IsTrimOf(r, s) ==
    \E a, b \in 0..Len(s) :
        /\ a + b <= Len(s)
        /\ r = Slice(s, a + 1, Len(s) - b)
        /\ \A k \in 1..a : IsWhite(Slice(s, k, k))
        /\ \A k \in (Len(s) - b + 1)..Len(s) : IsWhite(Slice(s, k, k))
        /\ r = "" \/ (~IsWhite(Slice(r, 1, 1)) /\ ~IsWhite(Slice(r, Len(r), Len(r))))

\* C12: when the name (less one artifacts_ prefix) contains "BFT PyTest ",
\* the result is the text after the first marker, cut at the first
\* "; JobAttempt=", trimmed, whether or not "PyTest test_report=" occurs too;
\* the two documented names resolve to Cert_Test and Fus_Negative_Test.
C12_MarkerRule ==
    pc = "returned" =>
        LET clean == Unprefixed(args[1])
            marks == {i \in 1..Len(clean) : Slice(clean, i, i + 10) = "BFT PyTest "}
        IN  /\ marks # {} =>
                  \E i \in marks :
                      /\ \A k \in marks : i <= k
                      /\ LET rest == Slice(clean, i + 11, Len(clean))
                             cuts == {j \in 1..Len(rest) : Slice(rest, j, j + 12) = "; JobAttempt="}
                         IN  \E kept \in {IF cuts = {} THEN rest ELSE Slice(rest, 1, LeastOf(cuts) - 1)} :
                                 IsTrimOf(ret[1], kept)
            /\ args[1] = "artifacts_BFT PyTest Cert_Test; JobAttempt=1" => ret[1] = "Cert_Test"
            /\ args[1] = "artifacts_PyTest test_report=BFT PyTest Fus_Negative_Test; JobAttempt=1"
                  => ret[1] = "Fus_Negative_Test"

\* a prefixed name holding the test_report marker, then the BFT PyTest
\* marker, then a JobAttempt segment was resolved
C12_Witness ==
    /\ pc = "returned"
    /\ StartsWith(args[1], "artifacts_")
    /\ StrFind(args[1], "PyTest test_report=") > 0
    /\ StrFind(args[1], "BFT PyTest ") > StrFind(args[1], "PyTest test_report=")
    /\ StrFind(args[1], "; JobAttempt=") > StrFind(args[1], "BFT PyTest ")
    /\ ret = <<"Fus_Negative_Test">>

RECURSIVE Without(_, _)
\* s with the characters of the set cs taken out
Without(s, cs) ==
    IF Len(s) = 0 THEN ""
    ELSE Without(Slice(s, 1, Len(s) - 1), cs)
             \o (IF Slice(s, Len(s), Len(s)) \in cs THEN "" ELSE Slice(s, Len(s), Len(s)))

\* C13: with neither marker in the name (less one artifacts_ prefix), the
\* result is that name with every space turned into an underscore and every
\* ';' and '=' taken out, nothing put in their place.
C13_Fallback ==
    pc = "returned" =>
        LET clean == Unprefixed(args[1])
        IN  (~Contains(clean, "BFT PyTest ") /\ ~Contains(clean, "PyTest test_report=")) =>
                /\ ret[1] = Replace(Without(clean, {";", "="}), " ", "_")
                /\ Len(ret[1]) = Len(Without(clean, {";", "="}))
                /\ args[1] = "random name" => ret[1] = "random_name"

\* C14: every file entry is written below output_dir/suite_<resolved name>
\* at its own relative path, whatever the entry is called, and the list
\* returned for an intact archive is the list of those paths in archive order.
C14_Confined ==
    LET suite_dir == PathJoin(args[3], "suite_" \o _extract_suite_name_from_artifact(args[2]))
        entries == SelectSeq(args[1].entries, LAMBDA e : ~is_dir(e))
    IN  /\ \A i \in 1..Len(extracted_files) : IsAncestor(OnDisk(suite_dir), OnDisk(extracted_files[i]))
        /\ \A k \in DictKeys(disk) : IsAncestor(OnDisk(suite_dir), k)
        /\ (pc = "returned" /\ args[1].kind = "zip" /\ idx = Len(args[1].entries)) =>
               /\ ret = <<extracted_files>>
               /\ Len(extracted_files) = Len(entries)
               /\ \A i \in 1..Len(entries) :
                      /\ Parts(extracted_files[i]) = Parts(suite_dir) \o Parts(entries[i].filename)
                      /\ OnDisk(extracted_files[i]) \in DictKeys(disk)

\* C15: no exception leaves extract_artifact because of a corrupt archive,
\* and once the corruption is met the call returns the empty list, also
\* when entries were written before.
C15_CorruptYieldsEmpty ==
    /\ pc = "raised" => args[1].entries[idx + 1].fault = "none"
    /\ (pc = "returned" /\ (args[1].kind = "notzip" \/ idx < Len(args[1].entries))) => ret = <<<<>>>>

(***************************************************************************)
(* Single parser calls                                                     *)
(***************************************************************************)
\* the numbers a start tag of the pool can carry
HeadCounts == 0..5

\* elem carries the decimal numeral of n under key, or no such attribute and n = 0
AttrIs(elem, key, n) ==
    IF key \in DOMAIN elem.attrib THEN elem.attrib[key] = ToString(n) ELSE n = 0

\* C16: every record the XML parser returns carries the numbers of a suite
\* element of that name: total is its tests attribute, failed, errors and
\* skipped its failures, errors and skipped attributes, and passed is
\* total - failed - errors - skipped, negative values included; tests=5,
\* failures=1, errors=0, skipped=1 gives passed = 3, and tests=0, failures=1
\* gives a record with passed = -1.
C16_PassedDerived ==
    (pc = "returned" /\ args[1].doc.fmt = "xml" /\ args[1].doc.wellformed) =>
        LET suites == SuiteElements(args[1].doc.root)
            Has(j, t, f, e, s) ==
                /\ AttrIs(suites[j], "tests", t)
                /\ AttrIs(suites[j], "failures", f)
                /\ AttrIs(suites[j], "errors", e)
                /\ AttrIs(suites[j], "skipped", s)
            RecordOf(j, r) == r.key = SuiteNameOf(suites[j], args[1].path)
        IN  /\ \A i \in 1..Len(ret[1]) :
                \E j \in 1..Len(suites), t, f, e, s \in HeadCounts :
                    /\ RecordOf(j, ret[1][i])
                    /\ Has(j, t, f, e, s)
                    /\ Counters(ret[1][i].val) = <<t, t - f - e - s, f, s, e>>
            /\ \A j \in 1..Len(suites) :
                /\ Has(j, 5, 1, 0, 1) =>
                    \E i \in 1..Len(ret[1]) : RecordOf(j, ret[1][i]) /\ ret[1][i].val.passed = 3
                /\ Has(j, 0, 1, 0, 0) =>
                    \E i \in 1..Len(ret[1]) : RecordOf(j, ret[1][i]) /\ ret[1][i].val.passed = 0 - 1

\* a returned record with a negative passed
C16_Witness ==
    /\ pc = "returned"
    /\ args[1].doc.fmt = "xml"
    /\ \E i \in 1..Len(ret[1]) : ret[1][i].val.passed < 0 /\ ret[1][i].val.total = 0 /\ ret[1][i].val.failed = 1

HasChild(elem, tag) == \E k \in 1..Len(elem.children) : elem.children[k].tag = tag

\* the first child of elem with that tag
FirstChild(elem, tag) == elem.children[LeastOf({k \in 1..Len(elem.children) : elem.children[k].tag = tag})]

\* the message of a failure or error child: its message attribute, else its text
ChildMessage(child) == IF "message" \in DOMAIN child.attrib THEN <<child.attrib.message>> ELSE child.text

\* what the claim says of one testcase element and its TestResult
StatusByPrecedence(c, t) ==
    /\ t.status = IF HasChild(c, "failure") THEN "failed"
                  ELSE IF HasChild(c, "error") THEN "error"
                  ELSE IF HasChild(c, "skipped") THEN "skipped"
                  ELSE "passed"
    /\ t.failure_message = IF HasChild(c, "failure") THEN ChildMessage(FirstChild(c, "failure")) ELSE None
    /\ t.error_message = IF ~HasChild(c, "failure") /\ HasChild(c, "error")
                         THEN ChildMessage(FirstChild(c, "error"))
                         ELSE None
    /\ t.failure_message = None \/ t.error_message = None

\* C17: every TestResult the XML parser returns stands for one testcase
\* element, in document order, with status failed if the element has a
\* failure child, else error if it has an error child, else skipped if it has
\* a skipped child, else passed; failure_message (error_message) is the
\* message attribute of that child, or its text when the attribute is absent;
\* never both messages are set, and a testcase with a failure and an error
\* child is failed with error_message unset.
C17_StatusPrecedence ==
    (pc = "returned" /\ args[1].doc.fmt = "xml" /\ args[1].doc.wellformed) =>
        LET suites == SuiteElements(args[1].doc.root)
            CasesOf(j) == SelectSeq(suites[j].children, LAMBDA c : c.tag = "testcase")
            Matches(cases, tests) ==
                /\ Len(tests) = Len(cases)
                /\ \A k \in 1..Len(cases) : StatusByPrecedence(cases[k], tests[k])
        IN  \A i \in 1..Len(ret[1]) :
                \E j \in 1..Len(suites) :
                    /\ ret[1][i].key = SuiteNameOf(suites[j], args[1].path)
                    /\ Matches(CasesOf(j), ret[1][i].val.tests)

\* a testcase whose error child precedes its failure child was returned as
\* failed, with the failure's text as message and no error message
C17_Witness ==
    /\ pc = "returned"
    /\ args[1].doc.fmt = "xml"
    /\ args[1].doc.root.children # <<>>
    /\ args[1].doc.root.children[1].children = <<ErrorText, FailureText>>
    /\ Len(ret[1]) = 1
    /\ ret[1][1].val.tests[1].status = "failed"
    /\ ret[1][1].val.tests[1].failure_message = <<"trace">>
    /\ ret[1][1].val.tests[1].error_message = None

(***************************************************************************)
(* Malformed documents in a run                                            *)
(***************************************************************************)
\* the file goes to the XML or the JSON parser and its document does not parse
IsMalformed(file) ==
    \/ ParserOf(file.path) = "_parse_junit_xml" /\ file.doc.fmt = "xml" /\ ~file.doc.wellformed
    \/ ParserOf(file.path) = "_parse_json_report" /\ file.doc.fmt = "json" /\ file.doc.kind = "malformed"

\* C18: when the run processes an eligible file whose XML or JSON document is
\* malformed, its parser is called and returns without raising (the run
\* records no failure for the file and logs no processing error), and the
\* accumulator and the records it refers to are the same after the file as
\* before it.
C18_MalformedRecovered ==
    [][(pc = "loop" /\ idx' = idx + 1 /\ _is_test_result_file(files[idx + 1].path)
            /\ IsMalformed(files[idx + 1]))
        => /\ parse_calls' = Append(parse_calls, <<idx + 1, ParserOf(files[idx + 1].path)>>)
           /\ raised_at' = raised_at
           /\ log' = log
           /\ test_results' = test_results
           /\ <<objs, lists>>' = <<objs, lists>>
           /\ processed_count' = processed_count + 1]_vars

\* a malformed XML file and a malformed JSON file were both parsed, and the
\* run holds no suite and no failure
C18_Witness ==
    /\ idx = 2
    /\ IsMalformed(files[1]) /\ files[1].doc.fmt = "xml"
    /\ IsMalformed(files[2]) /\ files[2].doc.fmt = "json"
    /\ parse_calls = <<<<1, "_parse_junit_xml">>, <<2, "_parse_json_report">>>>
    /\ raised_at = <<>>
    /\ test_results = <<>>

(***************************************************************************)
(* JSON shapes                                                             *)
(***************************************************************************)
\* str.lower() on the outcomes the documents of the pool carry
LowerCased(outcome) ==
    CASE outcome = "PASSED" -> "passed"
      [] outcome \in {"FAILED", "Failed"} -> "failed"
      [] OTHER -> outcome

\* the status of an element of the tests array
OutcomeOf(test_data) == IF "outcome" \in DOMAIN test_data THEN LowerCased(test_data.outcome) ELSE "unknown"

\* the counter a status adds to
CounterOf(status) == IF status \in {"passed", "failed", "skipped"} THEN status ELSE "errors"

HasTestsArray(doc) ==
    doc.fmt = "json" /\ doc.kind = "object" /\ "tests" \in DOMAIN doc.data /\ doc.data.tests.type = "array"

\* C19: for a JSON object with a tests array the parser returns at most one
\* record; its tests are the array's elements in order, one TestResult each,
\* with the lower-cased outcome as status ("unknown" when there is none);
\* passed, failed and skipped count the elements whose status is exactly
\* that word, errors counts all other elements, total is the array's length
\* and equals passed + failed + skipped + errors; each counter is the number
\* of tests of the record whose status adds to it.
C19_TestsArrayCounts ==
    (pc = "returned" /\ HasTestsArray(args[1].doc)) =>
        LET elements == args[1].doc.data.tests.items
            InArray(c) == Cardinality({k \in 1..Len(elements) : CounterOf(OutcomeOf(elements[k])) = c})
            InRecord(r, c) == Cardinality({k \in 1..Len(r.tests) : CounterOf(r.tests[k].status) = c})
            Holds(r) ==
                /\ Len(r.tests) = Len(elements)
                /\ \A k \in 1..Len(elements) : r.tests[k].status = OutcomeOf(elements[k])
                /\ r.total = Len(elements)
                /\ <<r.passed, r.failed, r.skipped, r.errors>>
                       = <<InArray("passed"), InArray("failed"), InArray("skipped"), InArray("errors")>>
                /\ <<r.passed, r.failed, r.skipped, r.errors>>
                       = <<InRecord(r, "passed"), InRecord(r, "failed"), InRecord(r, "skipped"),
                           InRecord(r, "errors")>>
                /\ r.total = r.passed + r.failed + r.skipped + r.errors
        IN  /\ Len(ret[1]) <= 1
            /\ \A i \in 1..Len(ret[1]) : Holds(ret[1][i].val)

\* an array of an element without outcome and an element with outcome
\* "PASSED" was returned as one record with errors = 1 and passed = 1
C19_Witness ==
    /\ pc = "returned"
    /\ HasTestsArray(args[1].doc)
    /\ args[1].doc.data.tests.items = <<[nodeid |-> "t_b"], [nodeid |-> "t_a", outcome |-> "PASSED"]>>
    /\ Len(ret[1]) = 1
    /\ <<ret[1][1].val.tests[1].status, ret[1][1].val.tests[2].status>> = <<"unknown", "passed">>
    /\ Counters(ret[1][1].val) = <<2, 1, 0, 0, 1>>

\* summary[key] is a number greater than zero
IsPositive(summary, key) == key \in DOMAIN summary /\ summary[key] # None /\ summary[key][1] > 0

\* r[field] is summary[key] as it stands: the number, null, or 0 for an absent key
CopiedVerbatim(r, field, summary, key) ==
    IF key \in DOMAIN summary /\ summary[key] = None THEN field \in r.nonnum
    ELSE /\ field \notin r.nonnum
         /\ r[field] = IF key \in DOMAIN summary THEN summary[key][1] ELSE 0

\* C20: for a JSON object with a summary and no tests array the parser
\* returns one record exactly if summary.passed, summary.failed or
\* summary.error is greater than zero; total, passed, failed, skipped and
\* errors of the record are summary.total, passed, failed, skipped and error
\* as they stand, 0 for an absent key, total is not recomputed, and tests is
\* empty.  The call raises only when a value compared with zero is null.  An
\* object that has a tests array is read by its array, not by its summary.
C20_SummaryVerbatim ==
    /\ (args[1].doc.fmt = "json" /\ args[1].doc.kind = "object" /\ ~HasTestsArray(args[1].doc)
            /\ "summary" \in DOMAIN args[1].doc.data) =>
        LET summary == args[1].doc.data.summary
            Holds(r) ==
                /\ CopiedVerbatim(r, "total", summary, "total")
                /\ CopiedVerbatim(r, "passed", summary, "passed")
                /\ CopiedVerbatim(r, "failed", summary, "failed")
                /\ CopiedVerbatim(r, "skipped", summary, "skipped")
                /\ CopiedVerbatim(r, "errors", summary, "error")
                /\ r.tests = <<>>
        IN  /\ pc = "raised" => \E key \in {"passed", "failed", "error"} :
                                    key \in DOMAIN summary /\ summary[key] = None
            /\ pc = "returned" =>
                /\ Len(ret[1]) <= 1
                /\ Len(ret[1]) = 1 <=> \/ IsPositive(summary, "passed")
                                       \/ IsPositive(summary, "failed")
                                       \/ IsPositive(summary, "error")
                /\ \A i \in 1..Len(ret[1]) : Holds(ret[1][i].val)
    /\ (pc = "returned" /\ HasTestsArray(args[1].doc) /\ "summary" \in DOMAIN args[1].doc.data) =>
        \A i \in 1..Len(ret[1]) : /\ ret[1][i].val.total = Len(args[1].doc.data.tests.items)
                                  /\ Len(ret[1][i].val.tests) = ret[1][i].val.total

\* a summary with total 7, passed 2, failed 1, error 3 and no skipped was
\* returned as a record with total 7 although its counters add up to 6
C20_Witness ==
    /\ pc = "returned"
    /\ args[1].doc.fmt = "json"
    /\ args[1].doc.kind = "object"
    /\ DOMAIN args[1].doc.data = {"summary"}
    /\ Len(ret[1]) = 1
    /\ Counters(ret[1][1].val) = <<7, 2, 1, 0, 3>>
    /\ ret[1][1].val.tests = <<>>

(***************************************************************************)
(* Text logs                                                               *)
(***************************************************************************)
\* the number a line of the pool puts before the word, if any
LineCount(line, word) ==
    CASE line = "2 passed" /\ word = "passed" -> Some(2)
      [] line = "0 passed" /\ word = "passed" -> Some(0)
      [] line = "1 failed" /\ word = "failed" -> Some(1)
      [] line = "3 skipped" /\ word = "skipped" -> Some(3)
      [] line = "1 error" /\ word = "error" -> Some(1)
      [] line = "12 errors in 3s" /\ word = "error" -> Some(12)
      [] OTHER -> None

\* the number of the first line that has one for the word, else 0
FirstCount(lines, word) ==
    LET with == {i \in 1..Len(lines) : LineCount(lines[i], word) # None}
    IN  IF with = {} THEN 0 ELSE LineCount(lines[LeastOf(with)], word)[1]

\* C21: for a log made of lines, the text parser takes each of passed,
\* failed, skipped and errors from the first line that states it (0 if none
\* does), total is their sum, and the suite is returned exactly if total > 0,
\* whatever passed, failed and errors are: a log whose only count is
\* "3 skipped" gives a suite with passed = failed = errors = 0, and a log of
\* "FAILED <name> -" lines without counts gives no suite.
C21_TextTotals ==
    (pc = "returned" /\ args[1].doc.fmt = "text") =>
        \E lines \in SeqsUpTo(TextLines, MaxTests) :
            /\ JoinLines(lines) = args[1].doc.content
            /\ LET passed == FirstCount(lines, "passed")
                   failed == FirstCount(lines, "failed")
                   skipped == FirstCount(lines, "skipped")
                   errors == FirstCount(lines, "error")
                   total == passed + failed + skipped + errors
               IN  /\ Len(ret[1]) = IF total > 0 THEN 1 ELSE 0
                   /\ \A i \in 1..Len(ret[1]) :
                        Counters(ret[1][i].val) = <<total, passed, failed, skipped, errors>>
                   /\ lines = <<"3 skipped">> =>
                        Len(ret[1]) = 1 /\ Counters(ret[1][1].val) = <<3, 0, 0, 3, 0>>
                   /\ (\A i \in 1..Len(lines) : lines[i] = "FAILED t_a - boom") => ret[1] = <<>>

\* the log "3 skipped" was returned as a suite with nothing but skipped tests
C21_Witness ==
    /\ pc = "returned"
    /\ args[1].doc.fmt = "text"
    /\ args[1].doc.content = "3 skipped"
    /\ Len(ret[1]) = 1
    /\ Counters(ret[1][1].val) = <<3, 0, 0, 3, 0>>

(***************************************************************************)
(* HTML reports                                                            *)
(***************************************************************************)
\* the counter a row of the summary table supplies, "" if none
SuppliedCounter(row) ==
    IF Len(row) < 2 THEN ""
    ELSE CASE row[1] = "Passed" -> "passed"
           [] row[1] = "Failed" -> "failed"
           [] row[1] = "Skipped" -> "skipped"
           [] row[1] = "Errors" -> "errors"
           [] OTHER -> ""

\* the count the summary table leaves in the counter: that of its last row for it, else 0
SuppliedCount(rows, counter) ==
    LET with == {i \in 1..Len(rows) : SuppliedCounter(rows[i]) = counter}
    IN  IF with = {} THEN 0
        ELSE IF rows[GreatestOf(with)][2] = "0" THEN 0
        ELSE IF rows[GreatestOf(with)][2] = "1" THEN 1
        ELSE 2

SuppliesAny(rows) == \E i \in 1..Len(rows) : SuppliedCounter(rows[i]) # ""

\* C22: on the markup-parser path, when the summary table supplied any of
\* the four counts, the counters of the returned record are those of the
\* summary table: the rows of the results-table body add to none of them.
C22_RowScanOnlyWithoutSummary ==
    (pc = "returned" /\ args[1].doc.fmt = "html" /\ HTML_PARSER_AVAILABLE
            /\ args[1].doc.summary_table # None /\ SuppliesAny(args[1].doc.summary_table[1])) =>
        \A i \in 1..Len(ret[1]) :
            LET r == ret[1][i].val
                rows == args[1].doc.summary_table[1]
            IN  <<r.passed, r.failed, r.skipped, r.errors>>
                    = <<SuppliedCount(rows, "passed"), SuppliedCount(rows, "failed"),
                        SuppliedCount(rows, "skipped"), SuppliedCount(rows, "errors")>>

(***************************************************************************)
(* Runs of process_test_files, continued                                   *)
(***************************************************************************)
Warned == \E i \in 1..Len(log) : log[i] = "No test result files detected"

\* C23: a run over a non-empty file list that returns the empty map has
\* logged the "no test result files" warning, whether no file was eligible
\* or eligible files were processed and none of them gave a suite.
C23_EmptyBatchWarned ==
    (pc = "done" /\ Len(files) > 0 /\ ret = Some(<<>>)) => Warned

\* the file is read by a parser that computes total or passed from the others
ComputesTotal(file) ==
    \/ ParserOf(file.path) = "_parse_junit_xml" /\ file.doc.fmt = "xml"
    \/ ParserOf(file.path) = "_parse_text_report" /\ file.doc.fmt = "text"
    \/ ParserOf(file.path) = "_parse_json_report" /\ HasTestsArray(file.doc)

\* C24: as long as every file the run has gone through is an XML file, a
\* JSON file with a tests array or a text log, every record of the
\* accumulator has total = passed + failed + skipped + errors, inserted and
\* merged records alike.
C24_SumInvariant ==
    (\A i \in 1..idx : ComputesTotal(files[i])) =>
        \A k \in 1..Len(Result) :
            Result[k].val.total = Result[k].val.passed + Result[k].val.failed
                                    + Result[k].val.skipped + Result[k].val.errors

\* an XML file and a text log were merged into one record of 13 tests
C24_Witness ==
    /\ idx = 2
    /\ ParserOf(files[1].path) = "_parse_junit_xml"
    /\ ParserOf(files[2].path) = "_parse_text_report"
    /\ \E k \in 1..Len(Result) : Counters(Result[k].val) = <<13, 10, 3, 0, 0>>

RECURSIVE RunOf(_, _, _)
\* process_test_files on fs[1..n] as a function: the heap and the accumulator after the loop
RunOf(fs, n, parser_available) ==
    IF n = 0 THEN [h |-> [objs |-> <<>>, lists |-> <<>>], acc |-> <<>>]
    ELSE LET Step(before) ==
                 IF ~_is_test_result_file(fs[n].path) THEN before
                 ELSE LET Keep(r) == [h |-> r.h, acc |-> r.acc]
                      IN  Keep(TryFile(before.h, before.acc, fs[n], parser_available))
         IN  Step(RunOf(fs, n - 1, parser_available))

\* the suite names of a returned map, each with its five counters (and
\* which of them hold null)
CountersByName(run) ==
    {<<run.acc[k].key, Counters(Deref(run.h, run.acc[k].val)),
       Deref(run.h, run.acc[k].val).nonnum \ {"duration"}>> : k \in 1..Len(run.acc)}

\* fs with the files at i and j exchanged
Exchanged(fs, i, j) == [fs EXCEPT ![i] = fs[j], ![j] = fs[i]]

\* C25: the map a run returns has the same suite names, each with the same
\* total, passed, failed, skipped and errors, as the map returned for the
\* same files with any two of them exchanged (hence in any order).
C25_OrderIndependent ==
    pc = "done" =>
        \A i, j \in 1..Len(files) :
            i < j => CountersByName(RunOf(Exchanged(files, i, j), Len(files), HTML_PARSER_AVAILABLE))
                        = CountersByName([h |-> Heap, acc |-> test_results])

\* C26: in every state of a run, each entry of the accumulator holds a
\* record whose name is the entry's key, and every test of the record names
\* that key as its suite, after insertions and after merges.
C26_KeyNameConsistent ==
    \A k \in 1..Len(Result) :
        /\ Result[k].val.name = Result[k].key
        /\ \A t \in 1..Len(Result[k].val.tests) : Result[k].val.tests[t].suite = Result[k].key

\* two files were merged under the name results into a record of two tests
C26_Witness ==
    /\ idx = 2
    /\ Len(parse_calls) = 2
    /\ raised_at = <<>>
    /\ \E k \in 1..Len(Result) :
        /\ Result[k].key = "results"
        /\ Result[k].val.total = 2
        /\ Len(Result[k].val.tests) = 2

\* the counter of the record holds a number greater than zero
CounterPositive(r, field) == field \notin r.nonnum /\ r[field] > 0

\* C27: in a run that has gone through no text log (the XML, JSON and HTML
\* files of the pool state no negative failure or error count), every
\* record of the accumulator, and so of the returned map, has passed > 0 or
\* failed > 0 or errors > 0, also a record merged from records with a
\* negative passed.
C27_AggregateMeaningful ==
    (\A i \in 1..idx : ParserOf(files[i].path) # "_parse_text_report") =>
        \A k \in 1..Len(Result) :
            \/ CounterPositive(Result[k].val, "passed")
            \/ CounterPositive(Result[k].val, "failed")
            \/ CounterPositive(Result[k].val, "errors")

\* the returned map holds a record merged from passed = -1 and passed = 1:
\* passed is 0 and failed is 1
C27_Witness ==
    /\ pc = "done"
    /\ Len(files) = 2
    /\ files[1].doc = Xml(SuiteNegative)
    /\ raised_at = <<>>
    /\ \E k \in 1..Len(Result) : Counters(Result[k].val) = <<1, 0, 1, 0, 0>>

(***************************************************************************)
(* Suites of one XML file                                                  *)
(***************************************************************************)
\* elem states the four numbers (an absent attribute is 0)
HeadIs(elem, t, f, e, s) ==
    /\ AttrIs(elem, "tests", t)
    /\ AttrIs(elem, "failures", f)
    /\ AttrIs(elem, "errors", e)
    /\ AttrIs(elem, "skipped", s)

\* elem passes the filter: its derived passed, its failures or its errors are above zero
IsMeaningfulElem(elem) ==
    \E t, f, e, s \in HeadCounts : HeadIs(elem, t, f, e, s) /\ (t - f - e - s > 0 \/ f > 0 \/ e > 0)

\* r is the record of elem alone: its numbers and its testcases
IsRecordOf(r, elem) ==
    /\ \E t, f, e, s \in HeadCounts :
        HeadIs(elem, t, f, e, s) /\ Counters(r) = <<t, t - f - e - s, f, s, e>>
    /\ LET cases == SelectSeq(elem.children, LAMBDA c : c.tag = "testcase")
       IN  /\ Len(r.tests) = Len(cases)
           /\ \A k \in 1..Len(cases) : r.tests[k].name = cases[k].attrib.name

\* C28: for a <testsuites> document the XML parser returns one record for
\* each name of a meaningful <testsuite> element, and the record is that of
\* the last meaningful element of that name alone: its counters and its
\* tests, with nothing added from earlier elements of the same name.
C28_LaterSuiteReplaces ==
    (pc = "returned" /\ args[1].doc.fmt = "xml" /\ args[1].doc.wellformed
            /\ args[1].doc.root.tag = "testsuites") =>
        LET suites == SuiteElements(args[1].doc.root)
            Named(n) == {j \in 1..Len(suites) :
                            IsMeaningfulElem(suites[j]) /\ SuiteNameOf(suites[j], args[1].path) = n}
        IN  /\ {ret[1][i].key : i \in 1..Len(ret[1])}
                   = {SuiteNameOf(suites[j], args[1].path) :
                          j \in {j \in 1..Len(suites) : IsMeaningfulElem(suites[j])}}
            /\ \A i, k \in 1..Len(ret[1]) : ret[1][i].key = ret[1][k].key => i = k
            /\ \A i \in 1..Len(ret[1]) :
                IsRecordOf(ret[1][i].val, suites[GreatestOf(Named(ret[1][i].key))])

\* two meaningful elements named unit, the first with two testcases, the
\* second with none: the record has the second's counters and no tests
C28_Witness ==
    /\ pc = "returned"
    /\ args[1].doc.fmt = "xml"
    /\ args[1].doc.wellformed
    /\ args[1].doc.root.tag = "testsuites"
    /\ Len(args[1].doc.root.children) = 2
    /\ args[1].doc.root.children[1]
           = Elem("testsuite", [name |-> "unit", tests |-> "5", failures |-> "1"], None,
                  <<CaseFailed("t_b"), CasePassed("t_c")>>)
    /\ args[1].doc.root.children[2]
           = Elem("testsuite", [name |-> "unit", tests |-> "2", errors |-> "2"], None, <<>>)
    /\ Len(ret[1]) = 1
    /\ Counters(ret[1][1].val) = <<2, 0, 0, 0, 2>>
    /\ ret[1][1].val.tests = <<>>

(***************************************************************************)
(* main, steps 2 and 3 (src/main.py lines 116-146).  args is               *)
(* <<artifacts, output_dir>>, an artifact being [name, data]; idx is the   *)
(* position of the running loop; extracted_files holds the dict            *)
(* extracted_data (artifact name -> list of extracted paths) and ret the   *)
(* dict all_test_results (artifact name -> suite map).  disk is shared by  *)
(* all extractions.  pc is "step2", "step3", "done", or "failed" when an   *)
(* exception has reached the handler of main.                              *)
(***************************************************************************)
MaxArtifacts == 2

RECURSIVE ExtractLoop(_, _, _, _)
\* the loop of extract_artifact over entries[1..n] as a function of the
\* disk d: the disk afterwards, the paths appended, and how the loop ended
\* ("ok", "caught" for BadZipFile, "raised" for any other exception)
ExtractLoop(entries, n, suite_dir, d) ==
    IF n = 0 THEN [disk |-> d, files |-> <<>>, out |-> "ok"]
    ELSE LET Step(before) ==
                 IF before.out # "ok" \/ is_dir(entries[n]) THEN before
                 ELSE LET file_info == entries[n]
                          At(extracted_path) ==
                              IF MkdirRaises(before.disk, extracted_path)
                              THEN [before EXCEPT !.out = "raised"]
                              ELSE IF file_info.fault = "header"
                              THEN [before EXCEPT !.out = "caught"]
                              ELSE IF OpenRaises(before.disk, suite_dir, extracted_path)
                              THEN [before EXCEPT !.out = "raised"]
                              ELSE IF file_info.fault = "crc"
                              THEN [before EXCEPT !.disk = DictSet(before.disk, OnDisk(extracted_path), ""),
                                                  !.out = "caught"]
                              ELSE IF file_info.fault = "stream"
                              THEN [before EXCEPT !.disk = DictSet(before.disk, OnDisk(extracted_path), ""),
                                                  !.out = "raised"]
                              ELSE [before EXCEPT !.disk = DictSet(before.disk, OnDisk(extracted_path),
                                                                   file_info.content),
                                                  !.files = Append(before.files, extracted_path)]
                      IN  At(ExtractedPath(suite_dir, file_info))
         IN  Step(ExtractLoop(entries, n - 1, suite_dir, d))

\* suite_dir.mkdir(parents=True, exist_ok=True) raises when suite_dir or
\* one of its ancestors is a regular file
SuiteDirRaises(d, suite_dir) ==
    \E k \in DictKeys(d) : k = OnDisk(suite_dir) \/ IsAncestor(k, OnDisk(suite_dir))

\* extract_artifact as a function of the disk: the disk afterwards, the
\* list returned, and whether an exception left the call
ExtractCall(artifact_data, artifact_name, output_dir, d) ==
    LET Outcome(suite_dir) ==
            IF SuiteDirRaises(d, suite_dir) THEN [disk |-> d, files |-> <<>>, raised |-> TRUE]
            ELSE IF artifact_data.kind = "notzip" THEN [disk |-> d, files |-> <<>>, raised |-> FALSE]
            ELSE LET Of(r) == [disk |-> r.disk,
                               files |-> IF r.out = "ok" THEN r.files ELSE <<>>,
                               raised |-> r.out = "raised"]
                 IN  Of(ExtractLoop(artifact_data.entries, Len(artifact_data.entries), suite_dir, d))
    IN  Outcome(SuiteDirOf(artifact_name, output_dir))

\* the files process_test_files opens for a list of paths: each path with
\* the content the disk d holds for it
FilesOn(d, paths) == [k \in 1..Len(paths) |-> File(paths[k], DictGet(d, OnDisk(paths[k])))]

\* the suite map process_test_files returns for a list of paths on disk d
ProcessCall(d, paths, parser_available) ==
    LET Map(run) == [k \in 1..Len(run.acc) |->
                        [key |-> run.acc[k].key, val |-> Deref(run.h, run.acc[k].val)]]
    IN  Map(RunOf(FilesOn(d, paths), Len(paths), parser_available))

Artifact(name, data) == [name |-> name, data |-> data]

PipelineNames ==
    {"PyTest test_report=BFT PyTest Cert_Test; JobAttempt=1",
     "PyTest test_report=BFT PyTest Cert_Test; JobAttempt=2",
     "PyTest test_report=BFT PyTest Fus_Test; JobAttempt=1",
     "coverage-report"}

Zip(entries) == [kind |-> "zip", entries |-> entries]

ArtifactArchives ==
    {Zip(<<Entry("results.xml", Xml(SuiteTen), "none")>>),
     Zip(<<Entry("results.xml", Xml(SuiteOther), "none")>>),
     Zip(<<Entry("junit/", NoDoc, "none"), Entry("junit/results.json", JsonSummaryFive, "none")>>),
     Zip(<<Entry("results.xml", Xml(SuiteSkipped), "none"), Entry("notes.md", NoDoc, "none")>>),
     Zip(<<Entry("results.xml/part.xml", Xml(SuiteOther), "none")>>),
     Zip(<<Entry("results.xml", Xml(SuiteTen), "header")>>),
     [kind |-> "notzip", entries |-> <<>>]}

\* the artifacts of a run have distinct names
ArtifactLists ==
    {as \in SeqsUpTo({Artifact(n, a) : n \in PipelineNames, a \in ArtifactArchives}, MaxArtifacts) :
        \A i, j \in 1..Len(as) : i # j => as[i].name # as[j].name}

InitPipeline ==
    /\ args \in ArtifactLists \X {"/work/out"}
    /\ pc = "step2"
    /\ idx = 0
    /\ extracted_files = <<>>
    /\ ret = <<>>
    /\ disk = <<>>
    /\ files = <<>>
    /\ test_results = <<>>
    /\ processed_count = 0
    /\ parse_calls = <<>>
    /\ raised_at = <<>>
    /\ log = <<>>
    /\ objs = <<>>
    /\ lists = <<>>
    /\ HTML_PARSER_AVAILABLE = TRUE

\* lines 123-126: an artifact whose name does not start with
\* "PyTest test_report=" is skipped
SkipArtifact ==
    /\ pc = "step2"
    /\ idx < Len(args[1])
    /\ ~StartsWith(args[1][idx + 1].name, "PyTest test_report=")
    /\ idx' = idx + 1
    /\ UNCHANGED <<files, test_results, processed_count, parse_calls, raised_at, log, pc,
                   objs, lists, HTML_PARSER_AVAILABLE, args, ret, extracted_files, disk>>

\* lines 128-136: the artifact is extracted and its list of paths is stored
\* under its name; an exception ends main in its handler (line 279)
ExtractArtifact ==
    /\ pc = "step2"
    /\ idx < Len(args[1])
    /\ StartsWith(args[1][idx + 1].name, "PyTest test_report=")
    /\ \E r \in {ExtractCall(args[1][idx + 1].data, args[1][idx + 1].name, args[2], disk)} :
         /\ disk' = r.disk
         /\ IF r.raised
            THEN /\ pc' = "failed"
                 /\ UNCHANGED <<idx, extracted_files, log>>
            ELSE /\ extracted_files' = DictSet(extracted_files, args[1][idx + 1].name, r.files)
                 /\ idx' = idx + 1
                 /\ log' = IF r.files = <<>> /\ (args[1][idx + 1].data.kind = "notzip"
                                                 \/ \E k \in 1..Len(args[1][idx + 1].data.entries) :
                                                        args[1][idx + 1].data.entries[k].fault # "none")
                           THEN Append(log, "Failed to extract artifact")
                           ELSE log
                 /\ UNCHANGED pc
    /\ UNCHANGED <<files, test_results, processed_count, parse_calls, raised_at,
                   objs, lists, HTML_PARSER_AVAILABLE, args, ret>>

\* line 138-140: the first loop is over, all_test_results = {}
BeginProcessing ==
    /\ pc = "step2"
    /\ idx = Len(args[1])
    /\ pc' = "step3"
    /\ idx' = 0
    /\ ret' = <<>>
    /\ UNCHANGED <<files, test_results, processed_count, parse_calls, raised_at, log,
                   objs, lists, HTML_PARSER_AVAILABLE, args, extracted_files, disk>>

\* lines 142-145: one iteration over extracted_data.items()
ProcessArtifact ==
    /\ pc = "step3"
    /\ idx < Len(extracted_files)
    /\ \E results \in {ProcessCall(disk, extracted_files[idx + 1].val, HTML_PARSER_AVAILABLE)} :
         ret' = IF results # <<>> THEN DictSet(ret, extracted_files[idx + 1].key, results) ELSE ret
    /\ idx' = idx + 1
    /\ UNCHANGED <<files, test_results, processed_count, parse_calls, raised_at, log, pc,
                   objs, lists, HTML_PARSER_AVAILABLE, args, extracted_files, disk>>

\* lines 147-149: the second loop is over
EndProcessing ==
    /\ pc = "step3"
    /\ idx = Len(extracted_files)
    /\ pc' = "done"
    /\ log' = IF ret = <<>> THEN Append(log, "No test results found in any artifacts") ELSE log
    /\ UNCHANGED <<files, idx, test_results, processed_count, parse_calls, raised_at,
                   objs, lists, HTML_PARSER_AVAILABLE, args, ret, extracted_files, disk>>

NextPipeline == SkipArtifact \/ ExtractArtifact \/ BeginProcessing \/ ProcessArtifact \/ EndProcessing

SpecPipeline == InitPipeline /\ [][NextPipeline]_vars

\* what the pipeline stores for an artifact when it is the only artifact of
\* the run: the suite map of its own archive, extracted onto an empty disk
\* (the empty map is stored as no entry)
OwnResults(artifact, output_dir) ==
    LET Of(r) == ProcessCall(r.disk, r.files, TRUE)
    IN  Of(ExtractCall(artifact.data, artifact.name, output_dir, <<>>))

\* the suite map stored under an artifact's name, the empty map if none is
StoredResults(name) == IF name \in DictKeys(ret) THEN DictGet(ret, name) ELSE <<>>

\* C29: when the pipeline has processed every artifact, the suite map
\* stored under the name of each PyTest artifact is the map of that
\* artifact's own archive, whatever the other artifacts of the run hold.
C29_ArtifactIsolation ==
    pc = "done" =>
        \A i \in 1..Len(args[1]) :
            StartsWith(args[1][i].name, "PyTest test_report=")
                => StoredResults(args[1][i].name) = OwnResults(args[1][i], args[2])


====
